---- MODULE Spec2Model ----
(***************************************************************************)
(* Drag / resize / rotate / crop engine of the slidev client:              *)
(*   packages/client/composables/useDragElements.ts  (element state,       *)
(*       snap engine, history, position encoding)                          *)
(*   packages/client/composables/useGroupBounds.ts   (group bounding box)  *)
(*   packages/client/composables/useMultiSelect.ts   (selection)           *)
(*   packages/client/internals/DragControl.vue       (single-element       *)
(*       gesture handlers)                                                 *)
(*   packages/client/internals/GroupDragControl.vue  (group gestures)      *)
(*                                                                         *)
(* Numbers.  A JavaScript number is modelled as an exact rational          *)
(* [n |-> numerator, d |-> denominator] in lowest terms with d > 0, plus   *)
(* the three non-finite values of IEEE 754: +Infinity = [n |-> 1, d |-> 0],*)
(* -Infinity = [n |-> -1, d |-> 0] and NaN = [n |-> 0, d |-> 0].  Rounding *)
(* error of the floating-point operations and the sign of zero are not     *)
(* modelled: equalities below are equalities of exact values.              *)
(*                                                                         *)
(* Angles.  Math.cos / Math.sin / Math.atan2 are modelled exactly on the   *)
(* angles  90*q + t*Theta + u*Phi  degrees, where Theta = atan(4/3) and    *)
(* Phi = atan(17/144) are the angles of the Pythagorean triples (3,4,5)    *)
(* and (144,17,145): their sines and cosines are rational.  The degree     *)
(* value of Theta and Phi is irrational and is carried as a rational       *)
(* approximation (ThetaDeg, PhiDeg).                                       *)
(***************************************************************************)
EXTENDS Integers, Sequences, FiniteSets, TLC

(***************************************************************************)
(* Exact arithmetic on JavaScript numbers                                  *)
(***************************************************************************)
Abs(i) == IF i < 0 THEN -i ELSE i

Sgn(i) == IF i > 0 THEN 1 ELSE IF i < 0 THEN -1 ELSE 0

RECURSIVE Gcd(_, _)
Gcd(a, b) == IF b = 0 THEN a ELSE Gcd(b, a % b)

\* the number n/d, in lowest terms; d = 0 gives +-Infinity or NaN
Q(n, d) ==
  IF d = 0 THEN [n |-> Sgn(n), d |-> 0]
  ELSE LET g == Gcd(Abs(n), Abs(d))
           s == IF d < 0 THEN -1 ELSE 1
       IN  [n |-> (s * n) \div g, d |-> (s * d) \div g]

I(i) == [n |-> i, d |-> 1]

NaN == [n |-> 0, d |-> 0]

Infinity == [n |-> 1, d |-> 0]

NegInfinity == [n |-> -1, d |-> 0]

IsNaN(a) == a.d = 0 /\ a.n = 0

IsFinite(a) == a.d # 0

Neg(a) == [n |-> -a.n, d |-> a.d]

\* a + b
Add(a, b) ==
  IF a.d = 0 \/ b.d = 0
    THEN IF IsNaN(a) \/ IsNaN(b) THEN NaN
         ELSE IF a.d = 0 /\ b.d = 0
                THEN (IF a.n = b.n THEN a ELSE NaN)
                ELSE (IF a.d = 0 THEN a ELSE b)
    ELSE LET g == Gcd(a.d, b.d)
         IN  Q(a.n * (b.d \div g) + b.n * (a.d \div g), (a.d \div g) * b.d)

Sub(a, b) == Add(a, Neg(b))

\* a * b  (Infinity * 0 = NaN)
Mul(a, b) ==
  IF a.d = 0 \/ b.d = 0
    THEN [n |-> Sgn(a.n) * Sgn(b.n), d |-> 0]
    ELSE LET g1 == Gcd(Abs(a.n), b.d)
             g2 == Gcd(Abs(b.n), a.d)
         IN  IF a.n = 0 \/ b.n = 0 THEN I(0)
             ELSE [n |-> (a.n \div g1) * (b.n \div g2),
                   d |-> (a.d \div g2) * (b.d \div g1)]

\* a / b  (x / 0 = +-Infinity, 0 / 0 = NaN, x / Infinity = 0)
Div(a, b) ==
  IF IsNaN(a) \/ IsNaN(b) THEN NaN
  ELSE IF b.d = 0 THEN (IF a.d = 0 THEN NaN ELSE I(0))
  ELSE IF b.n = 0 THEN [n |-> Sgn(a.n), d |-> 0]
  ELSE IF a.d = 0 THEN [n |-> a.n * Sgn(b.n), d |-> 0]
  ELSE Mul(a, Q(b.d * Sgn(b.n), Abs(b.n)))

Half(a) == Div(a, I(2))

\* a < b  (false when either is NaN)
Lt(a, b) ==
  IF IsNaN(a) \/ IsNaN(b) THEN FALSE
  ELSE IF a.d = 0 \/ b.d = 0
         THEN (IF a.d = 0 /\ b.d = 0 THEN a.n < b.n
               ELSE IF a.d = 0 THEN a.n < 0 ELSE b.n > 0)
         ELSE Sub(a, b).n < 0

Le(a, b) == ~IsNaN(a) /\ ~IsNaN(b) /\ ~Lt(b, a)

\* Math.max / Math.min of two numbers (NaN when either is NaN)
Max(a, b) == IF IsNaN(a) \/ IsNaN(b) THEN NaN ELSE IF Lt(a, b) THEN b ELSE a

Min(a, b) == IF IsNaN(a) \/ IsNaN(b) THEN NaN ELSE IF Lt(b, a) THEN b ELSE a

\* Math.abs
MathAbs(a) == [n |-> Abs(a.n), d |-> a.d]

\* Math.round: the nearest integer, halves towards +Infinity
Round(a) ==
  IF a.d = 0 THEN a ELSE I((2 * a.n + a.d) \div (2 * a.d))

\* the % operator of JavaScript for a positive integer modulus m: the
\* remainder has the sign of the dividend
Rem(a, m) ==
  IF a.d = 0 THEN NaN
  ELSE LET k == Abs(a.n) \div (a.d * m)
       IN  Sub(a, I(Sgn(a.n) * k * m))

(***************************************************************************)
(* Trigonometry: Math.cos, Math.sin and Math.atan2 on the angles whose     *)
(* sine and cosine are rational                                            *)
(***************************************************************************)
\* degrees of atan(4/3) and of atan(17/144), to two decimals
ThetaDeg == Q(5313, 100)

PhiDeg == Q(673, 100)

\* ((a % 360) + 360) % 360
Normalize360(a) == Rem(Add(Rem(a, 360), I(360)), 360)

\* cosine and sine of the angles 90*q + t*Theta + u*Phi (mod 360), for
\* q in 0..3 and t, u in -1..1, by the angle-addition formulas from
\* cos Theta = 3/5, sin Theta = 4/5, cos Phi = 144/145, sin Phi = 17/145
TrigTable ==
  {
    [deg |-> [n |-> 0, d |-> 1], c |-> [n |-> 1, d |-> 1], s |-> [n |-> 0, d |-> 1]],
    [deg |-> [n |-> 673, d |-> 100], c |-> [n |-> 144, d |-> 145], s |-> [n |-> 17, d |-> 145]],
    [deg |-> [n |-> 1507, d |-> 50], c |-> [n |-> 627, d |-> 725], s |-> [n |-> 364, d |-> 725]],
    [deg |-> [n |-> 3687, d |-> 100], c |-> [n |-> 4, d |-> 5], s |-> [n |-> 3, d |-> 5]],
    [deg |-> [n |-> 218, d |-> 5], c |-> [n |-> 21, d |-> 29], s |-> [n |-> 20, d |-> 29]],
    [deg |-> [n |-> 232, d |-> 5], c |-> [n |-> 20, d |-> 29], s |-> [n |-> 21, d |-> 29]],
    [deg |-> [n |-> 5313, d |-> 100], c |-> [n |-> 3, d |-> 5], s |-> [n |-> 4, d |-> 5]],
    [deg |-> [n |-> 2993, d |-> 50], c |-> [n |-> 364, d |-> 725], s |-> [n |-> 627, d |-> 725]],
    [deg |-> [n |-> 8327, d |-> 100], c |-> [n |-> 17, d |-> 145], s |-> [n |-> 144, d |-> 145]],
    [deg |-> [n |-> 90, d |-> 1], c |-> [n |-> 0, d |-> 1], s |-> [n |-> 1, d |-> 1]],
    [deg |-> [n |-> 9673, d |-> 100], c |-> [n |-> -17, d |-> 145], s |-> [n |-> 144, d |-> 145]],
    [deg |-> [n |-> 6007, d |-> 50], c |-> [n |-> -364, d |-> 725], s |-> [n |-> 627, d |-> 725]],
    [deg |-> [n |-> 12687, d |-> 100], c |-> [n |-> -3, d |-> 5], s |-> [n |-> 4, d |-> 5]],
    [deg |-> [n |-> 668, d |-> 5], c |-> [n |-> -20, d |-> 29], s |-> [n |-> 21, d |-> 29]],
    [deg |-> [n |-> 682, d |-> 5], c |-> [n |-> -21, d |-> 29], s |-> [n |-> 20, d |-> 29]],
    [deg |-> [n |-> 14313, d |-> 100], c |-> [n |-> -4, d |-> 5], s |-> [n |-> 3, d |-> 5]],
    [deg |-> [n |-> 7493, d |-> 50], c |-> [n |-> -627, d |-> 725], s |-> [n |-> 364, d |-> 725]],
    [deg |-> [n |-> 17327, d |-> 100], c |-> [n |-> -144, d |-> 145], s |-> [n |-> 17, d |-> 145]],
    [deg |-> [n |-> 180, d |-> 1], c |-> [n |-> -1, d |-> 1], s |-> [n |-> 0, d |-> 1]],
    [deg |-> [n |-> 18673, d |-> 100], c |-> [n |-> -144, d |-> 145], s |-> [n |-> -17, d |-> 145]],
    [deg |-> [n |-> 10507, d |-> 50], c |-> [n |-> -627, d |-> 725], s |-> [n |-> -364, d |-> 725]],
    [deg |-> [n |-> 21687, d |-> 100], c |-> [n |-> -4, d |-> 5], s |-> [n |-> -3, d |-> 5]],
    [deg |-> [n |-> 1118, d |-> 5], c |-> [n |-> -21, d |-> 29], s |-> [n |-> -20, d |-> 29]],
    [deg |-> [n |-> 1132, d |-> 5], c |-> [n |-> -20, d |-> 29], s |-> [n |-> -21, d |-> 29]],
    [deg |-> [n |-> 23313, d |-> 100], c |-> [n |-> -3, d |-> 5], s |-> [n |-> -4, d |-> 5]],
    [deg |-> [n |-> 11993, d |-> 50], c |-> [n |-> -364, d |-> 725], s |-> [n |-> -627, d |-> 725]],
    [deg |-> [n |-> 26327, d |-> 100], c |-> [n |-> -17, d |-> 145], s |-> [n |-> -144, d |-> 145]],
    [deg |-> [n |-> 270, d |-> 1], c |-> [n |-> 0, d |-> 1], s |-> [n |-> -1, d |-> 1]],
    [deg |-> [n |-> 27673, d |-> 100], c |-> [n |-> 17, d |-> 145], s |-> [n |-> -144, d |-> 145]],
    [deg |-> [n |-> 15007, d |-> 50], c |-> [n |-> 364, d |-> 725], s |-> [n |-> -627, d |-> 725]],
    [deg |-> [n |-> 30687, d |-> 100], c |-> [n |-> 3, d |-> 5], s |-> [n |-> -4, d |-> 5]],
    [deg |-> [n |-> 1568, d |-> 5], c |-> [n |-> 20, d |-> 29], s |-> [n |-> -21, d |-> 29]],
    [deg |-> [n |-> 1582, d |-> 5], c |-> [n |-> 21, d |-> 29], s |-> [n |-> -20, d |-> 29]],
    [deg |-> [n |-> 32313, d |-> 100], c |-> [n |-> 4, d |-> 5], s |-> [n |-> -3, d |-> 5]],
    [deg |-> [n |-> 16493, d |-> 50], c |-> [n |-> 627, d |-> 725], s |-> [n |-> -364, d |-> 725]],
    [deg |-> [n |-> 35327, d |-> 100], c |-> [n |-> 144, d |-> 145], s |-> [n |-> -17, d |-> 145]]
  }

\* the angles (in degrees, any number of full turns) the table covers
InTable(deg) ==
  IsFinite(deg) /\ \E e \in TrigTable : e.deg = Normalize360(deg)

TrigEntry(deg) == CHOOSE e \in TrigTable : e.deg = Normalize360(deg)

\* Math.cos(deg * Math.PI / 180)
Cos(deg) == IF IsFinite(deg) THEN TrigEntry(deg).c ELSE NaN

\* Math.sin(deg * Math.PI / 180)
Sin(deg) == IF IsFinite(deg) THEN TrigEntry(deg).s ELSE NaN

\* the direction (y, x) is one the table covers
InTableDir(y, x) ==
  /\ IsFinite(y) /\ IsFinite(x) /\ (y.n # 0 \/ x.n # 0)
  /\ \E e \in TrigTable :
       /\ Mul(e.s, x) = Mul(e.c, y)
       /\ Sgn(e.s.n) = Sgn(y.n) /\ Sgn(e.c.n) = Sgn(x.n)

\* Math.atan2(y, x) * 180 / Math.PI, in (-180, 180]
Atan2Deg(y, x) ==
  LET e == CHOOSE f \in TrigTable :
             /\ Mul(f.s, x) = Mul(f.c, y)
             /\ Sgn(f.s.n) = Sgn(y.n) /\ Sgn(f.c.n) = Sgn(x.n)
  IN  IF Lt(I(180), e.deg) THEN Sub(e.deg, I(360)) ELSE e.deg


(***************************************************************************)
(* State                                                                   *)
(***************************************************************************)
VARIABLES
  els,            \* dragId -> the element's refs (x0, y0, width, ...) and kind
  history,        \* dragId -> undo stack of HistorySnapshot, oldest first
  redoStack,      \* dragId -> redo stack of HistorySnapshot
  posStr,         \* dragId -> the position string last handed to the updater
  selection,      \* selectedDragElements, a sequence in insertion order
  activeSnapLines,\* dragId -> [x |-> guides, y |-> guides]
  pointerDrag,    \* v-drag directive: the drag of an element in progress
  currentDrag,    \* DragControl: the session of the selected element
  rotation,       \* DragControl: isRotating, pivot, start angles
  groupDrag,      \* GroupDragControl: currentDrag
  groupRotation,  \* GroupDragControl: pivot and start mouse angle
  ev,             \* the last handler that ran, with its event's inputs
  budget,         \* how many bounded steps (saves, nudges, ...) were taken
  script,         \* history bookkeeping: saves, undos and redos in a row
  gesture,        \* the last pointer-down: its kind, the elements it affects,
                  \* their geometry when the pointer went down, and whether
                  \* the window lost focus since
  currentCropDrag,\* DragControl: the crop handle held, with the crop values
                  \* and the pointer position when it went down
  updater,        \* useDragElementsUpdater of the page: the stored
                  \* positions, the pending patch, the debounce timer, the
                  \* update() calls in flight and what they persisted
  env             \* markdown-it env of the draggable-image rule: the drag
                  \* ids used per slide, and what the rule rendered

vars == <<els, history, redoStack, posStr, selection, activeSnapLines,
          pointerDrag, currentDrag, rotation, groupDrag, groupRotation,
          ev, budget, script, gesture, currentCropDrag, updater, env>>

slideWidth == 980

slideHeight == 552

maxHistorySize == 50

minRemain == 10

\* an element created by useDragElement from the numbers of its position,
\* mounted in a render context where dragging is enabled ('slide' or
\* 'presenter', not printing)
Element(x0, y0, w, h, r, z, crop, isArrow, autoHeight, dataSource) ==
  [x0 |-> x0, y0 |-> y0, width |-> w, height |-> h, rotate |-> r,
   zIndex |-> z,
   cropTop |-> crop[1], cropRight |-> crop[2],
   cropBottom |-> crop[3], cropLeft |-> crop[4],
   isArrow |-> isArrow, autoHeight |-> autoHeight, dataSource |-> dataSource,
   enabled |-> TRUE, mounted |-> TRUE,
   isCropping |-> FALSE, savedCropValues |-> [saved |-> FALSE]]

NoCrop == <<I(0), I(0), I(0), I(0)>>

\* a plain box: frontmatter position, fixed height
Box(x0, y0, w, h, r) ==
  Element(I(x0), I(y0), I(w), I(h), r, 100, NoCrop, FALSE, FALSE, "frontmatter")

\* height.value = v : on an auto-height element the setter does nothing
SetHeight(el, v) == IF el.autoHeight THEN el.height ELSE v

HistorySnapshot(el) ==
  [x0 |-> el.x0, y0 |-> el.y0, width |-> el.width, height |-> el.height,
   rotate |-> el.rotate, zIndex |-> el.zIndex,
   cropTop |-> el.cropTop, cropRight |-> el.cropRight,
   cropBottom |-> el.cropBottom, cropLeft |-> el.cropLeft]

getCurrentSnapshot(el) == HistorySnapshot(el)

applySnapshot(el, snap) ==
  [el EXCEPT !.x0 = snap.x0, !.y0 = snap.y0, !.width = snap.width,
             !.height = SetHeight(el, snap.height),
             !.rotate = snap.rotate, !.zIndex = snap.zIndex,
             !.cropTop = snap.cropTop, !.cropRight = snap.cropRight,
             !.cropBottom = snap.cropBottom, !.cropLeft = snap.cropLeft]

(***************************************************************************)
(* Position encoding: the watch on the ten refs builds the string, a       *)
(* comma-separated list of fields, modelled as the sequence of its fields. *)
(* A field is the text of a number ([s |-> "n", v |-> the number]) or one  *)
(* of the two height sentinels, NaN and _ .                                *)
(***************************************************************************)
NumField(a) ==
  IF IsNaN(a) THEN [s |-> "NaN", v |-> NaN] ELSE [s |-> "n", v |-> a]

hasCropOf(el) ==
  el.cropTop # I(0) \/ el.cropRight # I(0)
    \/ el.cropBottom # I(0) \/ el.cropLeft # I(0)

\* an encoder that leaves every field out that is at its default
EncodePosSkipDefaults(el) ==
  << NumField(Round(Sub(el.x0, Half(el.width)))),
     NumField(Round(Sub(el.y0, Half(el.height)))),
     NumField(Round(el.width)), NumField(Round(el.height)) >>
    \o (IF Round(el.rotate) # I(0) THEN << NumField(Round(el.rotate)) >>
        ELSE << >>)
    \o (IF el.zIndex # 100 THEN << NumField(I(el.zIndex)) >> ELSE << >>)
    \o (IF hasCropOf(el)
          THEN << NumField(Round(el.cropTop)), NumField(Round(el.cropRight)),
                  NumField(Round(el.cropBottom)), NumField(Round(el.cropLeft)) >>
          ELSE << >>)

\* posStr of the watch callback, before the brackets of a directive
EncodePos(el) ==
  LET base == << NumField(Round(Sub(el.x0, Half(el.width)))),
                 NumField(Round(Sub(el.y0, Half(el.height)))),
                 NumField(Round(el.width)) >>
      hgt == IF el.autoHeight
               THEN (IF el.dataSource = "directive"
                       THEN [s |-> "NaN", v |-> NaN] ELSE [s |-> "_", v |-> NaN])
               ELSE NumField(Round(el.height))
      hasZIndex == el.zIndex # 100
      hasCrop == hasCropOf(el)
      rot == IF Round(el.rotate) # I(0) \/ hasZIndex \/ hasCrop
               THEN << NumField(Round(el.rotate)) >> ELSE << >>
      zi == IF hasZIndex \/ hasCrop THEN << NumField(I(el.zIndex)) >> ELSE << >>
      cr == IF hasCrop
              THEN << NumField(Round(el.cropTop)), NumField(Round(el.cropRight)),
                      NumField(Round(el.cropBottom)), NumField(Round(el.cropLeft)) >>
              ELSE << >>
  IN  base \o << hgt >> \o rot \o zi \o cr

\* the height the browser lays an auto-height element out at: its content is
\* taken to be twice as wide as high (an image, say), so the height follows
\* the width
MeasuredHeight(el) == Half(MathAbs(el.width))

\* updateBounds() on an auto-height element: actualHeight is measured again;
\* y0 = configuredY0 + height / 2 moves with it, the top edge stays
updateBounds(el) ==
  IF el.autoHeight
    THEN [el EXCEPT !.height = MeasuredHeight(el),
                    !.y0 = Add(Sub(el.y0, Half(el.height)),
                               Half(MeasuredHeight(el)))]
    ELSE el

\* watch(width, updateBounds, { flush: 'post' }): runs after the handler on
\* every element whose width the handler changed
WidthWatchOf(old, new) ==
  [id \in DOMAIN new |->
     IF id \in DOMAIN old /\ new[id].width # old[id].width
       THEN updateBounds(new[id]) ELSE new[id]]

WidthWatch(new) == WidthWatchOf(els, new)

\* the watch on [x0, y0, width, ...]: every element one of whose refs changed
\* hands its new position string to the updater
PositionWatch(new) ==
  [id \in DOMAIN new |->
     IF id \in DOMAIN els /\ HistorySnapshot(new[id]) = HistorySnapshot(els[id])
       THEN posStr[id] ELSE EncodePos(new[id])]

(***************************************************************************)
(* History manager (useDragElements.ts, saveSnapshot / undo / redo)        *)
(***************************************************************************)
\* the undo stack after saveSnapshot() with a stack that drops the newest
\* entry instead of the oldest
saveSnapshotDropNewest(h, el) ==
  IF Len(h) + 1 > maxHistorySize THEN h ELSE Append(h, getCurrentSnapshot(el))

\* the undo stack after a saveSnapshot() that pushes the state twice
saveSnapshotTwice(h, el) ==
  Append(Append(h, getCurrentSnapshot(el)), getCurrentSnapshot(el))

\* the undo stack after a saveSnapshot() that uses unshift() and pop()
saveSnapshotUnshift(h, el) ==
  LET pushed == << getCurrentSnapshot(el) >> \o h
  IN  IF Len(pushed) > maxHistorySize
        THEN SubSeq(pushed, 1, maxHistorySize)
        ELSE pushed

\* the undo stack after saveSnapshot(): push, then shift() when over the cap
saveSnapshotStack(h, el) ==
  LET pushed == Append(h, getCurrentSnapshot(el))
  IN  IF Len(pushed) > maxHistorySize THEN Tail(pushed) ELSE pushed

\* undo() that forgets to push the current state onto the redo stack
undoNoRedoPush(el, h, r) ==
  IF Len(h) = 0 THEN [el |-> el, h |-> h, r |-> r]
  ELSE [el |-> applySnapshot(el, h[Len(h)]), h |-> SubSeq(h, 1, Len(h) - 1),
        r |-> r]

\* undo() without the early return: on an empty undo stack the current state
\* still goes onto the redo stack
undoPushOnEmpty(el, h, r) ==
  IF Len(h) = 0
    THEN [el |-> el, h |-> h, r |-> Append(r, getCurrentSnapshot(el))]
  ELSE [el |-> applySnapshot(el, h[Len(h)]), h |-> SubSeq(h, 1, Len(h) - 1),
        r |-> Append(r, getCurrentSnapshot(el))]

\* undo(): [el, h, r] after the call
undoResult(el, h, r) ==
  IF Len(h) = 0 THEN [el |-> el, h |-> h, r |-> r]
  ELSE [el |-> applySnapshot(el, h[Len(h)]),
        h |-> SubSeq(h, 1, Len(h) - 1),
        r |-> Append(r, getCurrentSnapshot(el))]

\* redo() that moves the entry between the stacks and leaves the geometry
redoKeepGeometry(el, h, r) ==
  IF Len(r) = 0 THEN [el |-> el, h |-> h, r |-> r]
  ELSE [el |-> el, h |-> Append(h, getCurrentSnapshot(el)),
        r |-> SubSeq(r, 1, Len(r) - 1)]

\* redo(): [el, h, r] after the call
redoResult(el, h, r) ==
  IF Len(r) = 0 THEN [el |-> el, h |-> h, r |-> r]
  ELSE [el |-> applySnapshot(el, r[Len(r)]),
        h |-> Append(h, getCurrentSnapshot(el)),
        r |-> SubSeq(r, 1, Len(r) - 1)]

NoSession == [active |-> FALSE]

NoScript == [phase |-> "none"]

\* currentCropDrag = null
NoCropDrag == [active |-> FALSE]

\* the env of a render in which no image was rendered yet
NoEnv == [_draggableImageIds |-> << >>, rendered |-> << >>]

\* the updater of a build without the editor: () => {}
NoUpdater == [active |-> FALSE]

NoGesture == [kind |-> "none", ids |-> {}, blurred |-> FALSE]

\* the record of a pointer-down of the given kind on the elements ids
GestureOf(kind, ids) ==
  [kind |-> kind, ids |-> ids, blurred |-> FALSE,
   start |-> [id \in ids |-> HistorySnapshot(els[id])],
   historyLen |-> [id \in ids |-> Len(history[id])]]

\* the bookkeeping after a geometry change that is no undo or redo: a run of
\* saves goes on, any other run is over
ScriptAfterChange == IF script.phase = "save" THEN script ELSE NoScript

gestureVars == <<selection, activeSnapLines, pointerDrag, currentDrag,
                 currentCropDrag, updater, env, rotation, groupDrag, groupRotation, gesture>>

\* bounds of the history runs
MaxSaves == 2

MaxNudge == 2

MaxUndo == 3

saveSnapshot(id) ==
  /\ id \in DOMAIN els
  /\ budget.saves < MaxSaves
  /\ budget' = [budget EXCEPT !.saves = @ + 1]
  /\ history' = [history EXCEPT ![id] = saveSnapshotStack(@, els[id])]
  /\ redoStack' = [redoStack EXCEPT ![id] = << >>]
  /\ ev' = [op |-> "saveSnapshot", id |-> id,
            full |-> Len(history[id]) = maxHistorySize]
  /\ script' = IF script.phase = "save" /\ script.id = id
                 THEN [script EXCEPT !.saves = @ + 1]
                 ELSE [phase |-> "save", id |-> id, saves |-> 1]
  /\ UNCHANGED <<els, posStr, gestureVars>>

undo(id) ==
  /\ id \in DOMAIN els
  /\ budget.undos < MaxUndo
  /\ LET res == undoResult(els[id], history[id], redoStack[id])
         new == WidthWatch([els EXCEPT ![id] = res.el])
     IN  /\ els' = new
         /\ history' = [history EXCEPT ![id] = res.h]
         /\ redoStack' = [redoStack EXCEPT ![id] = res.r]
         /\ posStr' = PositionWatch(new)
         /\ script' =
              IF script.phase = "save" /\ script.id = id
                THEN [phase |-> "undo", id |-> id, saves |-> script.saves,
                      undos |-> 1, target |-> HistorySnapshot(els[id]),
                      low |-> HistorySnapshot(new[id])]
              ELSE IF script.phase = "undo" /\ script.id = id
                        /\ script.undos < script.saves
                THEN [script EXCEPT !.undos = @ + 1,
                                    !.low = HistorySnapshot(new[id])]
              ELSE NoScript
  /\ ev' = [op |-> "undo", id |-> id]
  /\ budget' = [budget EXCEPT !.undos = @ + 1]
  /\ UNCHANGED gestureVars

redo(id) ==
  /\ id \in DOMAIN els
  /\ budget.redos < MaxUndo
  /\ LET res == redoResult(els[id], history[id], redoStack[id])
         new == WidthWatch([els EXCEPT ![id] = res.el])
     IN  /\ els' = new
         /\ history' = [history EXCEPT ![id] = res.h]
         /\ redoStack' = [redoStack EXCEPT ![id] = res.r]
         /\ posStr' = PositionWatch(new)
  /\ script' =
       IF script.phase = "undo" /\ script.id = id
         THEN [script EXCEPT !.phase = "redo"] @@ [redos |-> 1]
       ELSE IF script.phase = "redo" /\ script.id = id
                 /\ script.redos < script.undos
         THEN [script EXCEPT !.redos = @ + 1]
       ELSE NoScript
  /\ ev' = [op |-> "redo", id |-> id]
  /\ budget' = [budget EXCEPT !.redos = @ + 1]
  /\ UNCHANGED gestureVars

(***************************************************************************)
(* DragControl.vue: keyboard nudge and z-order of the selected element     *)
(***************************************************************************)
boundingWidth(el) ==
  Add(MathAbs(Mul(el.width, Cos(el.rotate))),
      MathAbs(Mul(el.height, Sin(el.rotate))))

boundingLeft(el) == Sub(el.x0, Half(boundingWidth(el)))

\* the element DragControl is mounted for: the single selected one
SingleSelected == IF Len(selection) = 1 THEN {selection[1]} ELSE {}

\* one tick of the moveRight interval
moveRight ==
  /\ \E id \in SingleSelected :
       /\ budget.nudges < MaxNudge
       /\ ~Le(I(slideWidth - minRemain), boundingLeft(els[id]))
       /\ LET new == [els EXCEPT ![id].x0 = Add(@, I(1))]
          IN  /\ els' = new
              /\ posStr' = PositionWatch(new)
       /\ ev' = [op |-> "moveRight", id |-> id]
  /\ budget' = [budget EXCEPT !.nudges = @ + 1]
  /\ script' = ScriptAfterChange
  /\ UNCHANGED <<history, redoStack, gestureVars>>

\* the z-index one of the z-order functions of DragControl.vue leaves
zOrderStep(id, op, z) ==
  /\ budget.nudges < MaxNudge
  /\ LET new == [els EXCEPT ![id].zIndex = z]
     IN  /\ els' = new
         /\ posStr' = PositionWatch(new)
  /\ ev' = [op |-> op, id |-> id, z |-> els[id].zIndex]
  /\ budget' = [budget EXCEPT !.nudges = @ + 1]
  /\ script' = ScriptAfterChange
  /\ UNCHANGED <<history, redoStack, gestureVars>>

\* zIndex.value += 1
bringForwardZ(z) == z + 1

\* a Send Backward without the floor
sendBackwardNoFloor(z) == z - 1

\* Math.max(1, zIndex.value - 1)
sendBackwardZ(z) == IF z - 1 > 1 THEN z - 1 ELSE 1

bringForward ==
  \E id \in SingleSelected :
    zOrderStep(id, "bringForward", bringForwardZ(els[id].zIndex))

sendBackward ==
  \E id \in SingleSelected :
    zOrderStep(id, "sendBackward", sendBackwardZ(els[id].zIndex))

bringToFront == \E id \in SingleSelected : zOrderStep(id, "bringToFront", 1000)

sendToBack == \E id \in SingleSelected : zOrderStep(id, "sendToBack", 1)

(***************************************************************************)
(* History specification: one element, its undo stack either empty or      *)
(* holding the 49 snapshots that 49 rounds of (saveSnapshot, moveRight)    *)
(* leave in session storage                                                *)
(***************************************************************************)
HistoryBox == Box(150, 150, 100, 100, I(0))

StoredHistory ==
  [i \in 1 .. (maxHistorySize - 1) |->
     HistorySnapshot([HistoryBox EXCEPT !.x0 = I(150 - maxHistorySize + i)])]

NoGestureInit ==
  /\ activeSnapLines = [id \in DOMAIN els |-> [x |-> << >>, y |-> << >>]]
  /\ pointerDrag = NoSession
  /\ currentDrag = NoSession
  /\ rotation = [isRotating |-> FALSE]
  /\ groupDrag = NoSession
  /\ groupRotation = [isRotating |-> FALSE]
  /\ ev = [op |-> "init"]
  /\ budget = [saves |-> 0, nudges |-> 0, undos |-> 0, redos |-> 0,
               downs |-> 0, moves |-> 0]
  /\ script = NoScript
  /\ gesture = NoGesture
  /\ currentCropDrag = NoCropDrag
  /\ updater = NoUpdater
  /\ env = NoEnv

InitHistory ==
  /\ els = [id \in {"a"} |-> HistoryBox]
  /\ history \in {[id \in {"a"} |-> << >>], [id \in {"a"} |-> StoredHistory]}
  /\ redoStack = [id \in {"a"} |-> << >>]
  /\ posStr = [id \in {"a"} |-> EncodePos(HistoryBox)]
  /\ selection = << "a" >>
  /\ NoGestureInit

NextHistory ==
  \/ \E id \in DOMAIN els : saveSnapshot(id)
  \/ \E id \in DOMAIN els : undo(id)
  \/ \E id \in DOMAIN els : redo(id)
  \/ moveRight
  \/ bringForward

SpecHistory == InitHistory /\ [][NextHistory]_vars

\* C1: after N saveSnapshot calls (geometry changing freely in between),
\* N undos followed by N redos leave the geometry exactly as it was just
\* before the first undo.
C1_UndoRedoSymmetry ==
  (script.phase = "redo" /\ script.redos = script.undos
     /\ script.undos <= script.saves)
    => HistorySnapshot(els[script.id]) = script.target

\* a run of two saves, two undos and two redos that went through a
\* different geometry
C1_Witness ==
  /\ script.phase = "redo" /\ script.saves >= 2
  /\ script.undos = script.saves /\ script.redos = script.undos
  /\ script.low # script.target

\* C1 on elements of fixed height: N undos and N redos after N saves restore
\* the geometry
C1_FixedHeightSymmetry ==
  (script.phase = "redo" /\ script.redos = script.undos
     /\ script.undos <= script.saves /\ ~els[script.id].autoHeight)
    => HistorySnapshot(els[script.id]) = script.target

\* C10: neither stack ever holds more than 50 entries, and a saveSnapshot on
\* a full undo stack drops the oldest entry and appends the current state.
C10_StacksBounded ==
  \A id \in DOMAIN els :
    Len(history[id]) <= maxHistorySize /\ Len(redoStack[id]) <= maxHistorySize

C10_HistoryCapped ==
  /\ [] C10_StacksBounded
  /\ [][ \A id \in DOMAIN els :
           (ev'.op = "saveSnapshot" /\ ev'.id = id
              /\ Len(history[id]) = maxHistorySize)
             => history'[id] =
                  Append(Tail(history[id]), HistorySnapshot(els[id])) ]_vars

\* a saveSnapshot has just run on a full stack whose oldest and newest
\* entries differ
C10_Witness ==
  /\ ev.op = "saveSnapshot" /\ ev.full
  /\ Len(history[ev.id]) = maxHistorySize
  /\ history[ev.id][1] # history[ev.id][maxHistorySize]

\* saveSnapshot has just run on ev.id: its redo stack is empty and the top of
\* its undo stack is its geometry
SnapshotOnTop ==
  ev.op = "saveSnapshot"
    => /\ redoStack[ev.id] = << >>
       /\ Len(history[ev.id]) > 0
       /\ history[ev.id][Len(history[ev.id])] = HistorySnapshot(els[ev.id])

\* C30: immediately after saveSnapshot on an element its redo stack is empty
\* and the top entry of its undo stack equals the element's geometry at the
\* time of the call (saveSnapshot leaves the geometry alone); a redo that
\* follows at once changes nothing.
C30_SnapshotOnTopRedoCleared ==
  /\ [] SnapshotOnTop
  /\ [][ \A id \in DOMAIN els :
           (ev'.op = "saveSnapshot" /\ ev'.id = id)
             => /\ els' = els
                /\ history'[id][Len(history'[id])] = HistorySnapshot(els[id]) ]_vars
  /\ [][ (ev.op = "saveSnapshot" /\ ev'.op = "redo" /\ ev'.id = ev.id)
           => /\ els' = els
              /\ posStr' = posStr
              /\ history' = history
              /\ redoStack' = redoStack ]_vars

\* the one saveSnapshot of the run followed an undo that had filled the redo
\* stack: the redo stack is empty again and the geometry the undo restored
\* is on top of the undo stack, above a different entry
C30_Witness ==
  /\ ev.op = "saveSnapshot"
  /\ budget.saves = 1 /\ budget.undos > 0 /\ budget.redos = 0
  /\ Len(history[ev.id]) > 1
  /\ redoStack[ev.id] = << >>
  /\ history[ev.id][Len(history[ev.id])] = HistorySnapshot(els[ev.id])
  /\ history[ev.id][Len(history[ev.id])] # history[ev.id][Len(history[ev.id]) - 1]

(***************************************************************************)
(* DragControl.vue: corner and edge handles of the single selected element *)
(***************************************************************************)
minSize(el) == IF el.isArrow THEN NegInfinity ELSE I(40)

\* the handles the template renders for the element
CornerHandles(el) ==
  IF el.autoHeight THEN {}
  ELSE IF el.isArrow THEN {"lt", "rb"} ELSE {"lt", "rb", "lb", "rt"}

BorderHandles(el) ==
  IF el.isArrow THEN {}
  ELSE IF el.autoHeight THEN {"l", "r"} ELSE {"l", "r", "t", "b"}

\* currentDrag as onPointerdown fills it; handle is the element that took
\* the pointer capture
DragSession(el, handle) ==
  LET c == Cos(el.rotate)
      s == Sin(el.rotate)
      cross1x == Sub(Mul(el.width, c), Mul(el.height, s))
      cross1y == Add(Mul(el.width, s), Mul(el.height, c))
      cross2x == Add(Mul(el.width, c), Mul(el.height, s))
      cross2y == Add(Mul(Neg(el.width), s), Mul(el.height, c))
  IN  [active |-> TRUE, handle |-> handle,
       x0 |-> el.x0, y0 |-> el.y0, width |-> el.width, height |-> el.height,
       rotate |-> el.rotate,
       ltx |-> Sub(el.x0, Half(cross1x)), lty |-> Sub(el.y0, Half(cross1y)),
       rtx |-> Add(el.x0, Half(cross2x)), rty |-> Sub(el.y0, Half(cross2y)),
       lbx |-> Sub(el.x0, Half(cross2x)), lby |-> Add(el.y0, Half(cross2y)),
       rbx |-> Add(el.x0, Half(cross1x)), rby |-> Add(el.y0, Half(cross1y))]

\* getSize without the minimum-size floor of the unmodified branch
getSizeNoFloor(el, drag, w1, h1, shiftKey) ==
  LET ratio == Div(drag.width, drag.height)
      wMin == Max(minSize(el), Mul(minSize(el), ratio))
  IN  IF shiftKey
        THEN LET w == Max(Max(w1, Mul(h1, ratio)), wMin)
             IN  [w |-> w, h |-> Div(w, ratio)]
        ELSE [w |-> w1, h |-> h1]

\* getSize with the aspect branch skipped on an arrow
getSizeArrowUnlocked(el, drag, w1, h1, shiftKey) ==
  LET ratio == Div(drag.width, drag.height)
      wMin == Max(minSize(el), Mul(minSize(el), ratio))
  IN  IF shiftKey /\ ~el.isArrow
        THEN LET w == Max(Max(w1, Mul(h1, ratio)), wMin)
             IN  [w |-> w, h |-> Div(w, ratio)]
        ELSE [w |-> Max(w1, minSize(el)), h |-> Max(h1, minSize(el))]

\* getSize whose aspect branch floors the width only
getSizeWidthFloorOnly(el, drag, w1, h1, shiftKey) ==
  LET ratio == Div(drag.width, drag.height)
  IN  IF shiftKey
        THEN LET w == Max(Max(w1, Mul(h1, ratio)), minSize(el))
             IN  [w |-> w, h |-> Div(w, ratio)]
        ELSE [w |-> Max(w1, minSize(el)), h |-> Max(h1, minSize(el))]

\* getSize(w1, h1) of the corner handler
getSize(el, drag, w1, h1, shiftKey) ==
  LET ratio == Div(drag.width, drag.height)
      wMin == Max(minSize(el), Mul(minSize(el), ratio))
  IN  IF shiftKey
        THEN LET w == Max(Max(w1, Mul(h1, ratio)), wMin)
             IN  [w |-> w, h |-> Div(w, ratio)]
        ELSE [w |-> Max(w1, minSize(el)), h |-> Max(h1, minSize(el))]

\* the width / height expressions of the corner handler at the point (x, y)
cornerSize(d, c, s, handle, x, y) ==
  CASE handle = "lt" ->
         [w |-> Add(Mul(Sub(d.rbx, x), c), Mul(Sub(d.rby, y), s)),
          h |-> Add(Mul(Neg(Sub(d.rbx, x)), s), Mul(Sub(d.rby, y), c))]
    [] handle = "lb" ->
         [w |-> Sub(Mul(Sub(d.rtx, x), c), Mul(Sub(y, d.rty), s)),
          h |-> Add(Mul(Sub(d.rtx, x), s), Mul(Sub(y, d.rty), c))]
    [] handle = "rt" ->
         [w |-> Sub(Mul(Sub(x, d.lbx), c), Mul(Sub(d.lby, y), s)),
          h |-> Add(Mul(Sub(x, d.lbx), s), Mul(Sub(d.lby, y), c))]
    [] handle = "rb" ->
         [w |-> Add(Mul(Sub(x, d.ltx), c), Mul(Sub(y, d.lty), s)),
          h |-> Add(Mul(Neg(Sub(x, d.ltx)), s), Mul(Sub(y, d.lty), c))]

\* the dragged corner recomputed from the resolved size (w, h)
cornerPoint(d, c, s, handle, w, h) ==
  CASE handle = "lt" ->
         [x |-> Add(Sub(d.rbx, Mul(w, c)), Mul(h, s)),
          y |-> Sub(Sub(d.rby, Mul(w, s)), Mul(h, c))]
    [] handle = "lb" ->
         [x |-> Sub(Sub(d.rtx, Mul(w, c)), Mul(h, s)),
          y |-> Add(Sub(d.rty, Mul(w, s)), Mul(h, c))]
    [] handle = "rt" ->
         [x |-> Add(Add(d.lbx, Mul(w, c)), Mul(h, s)),
          y |-> Sub(Add(d.lby, Mul(w, s)), Mul(h, c))]
    [] handle = "rb" ->
         [x |-> Sub(Add(d.ltx, Mul(w, c)), Mul(h, s)),
          y |-> Add(Add(d.lty, Mul(w, s)), Mul(h, c))]

\* the corner the handler pairs the dragged one with
cornerAnchor(d, handle) ==
  CASE handle = "lt" -> [x |-> d.rbx, y |-> d.rby]
    [] handle = "lb" -> [x |-> d.rtx, y |-> d.rty]
    [] handle = "rt" -> [x |-> d.lbx, y |-> d.lby]
    [] handle = "rb" -> [x |-> d.ltx, y |-> d.lty]

\* the element after onPointermove of a corner handle at pointer (x, y)
cornerMoveResult(el, d, handle, x, y, shiftKey) ==
  LET c == Cos(el.rotate)
      s == Sin(el.rotate)
      wh1 == cornerSize(d, c, s, handle, x, y)
      wh == getSize(el, d, wh1.w, wh1.h, shiftKey)
      p == cornerPoint(d, c, s, handle, wh.w, wh.h)
      a == cornerAnchor(d, handle)
      size == cornerSize(d, c, s, handle, p.x, p.y)
  IN  [el EXCEPT !.x0 = Half(Add(p.x, a.x)), !.y0 = Half(Add(p.y, a.y)),
                 !.width = size.w, !.height = SetHeight(el, size.h)]

\* the element after onPointermove of an edge handle at pointer (x, y)
borderMoveResult(el, d, dir, x, y) ==
  LET c == Cos(el.rotate)
      s == Sin(el.rotate)
      rx == Half(Add(d.rtx, d.rbx))
      ry == Half(Add(d.rty, d.rby))
      lx == Half(Add(d.ltx, d.lbx))
      ly == Half(Add(d.lty, d.lby))
      bx == Half(Add(d.lbx, d.rbx))
      by == Half(Add(d.lby, d.rby))
      tx == Half(Add(d.ltx, d.rtx))
      ty == Half(Add(d.lty, d.rty))
      wl == Max(Add(Mul(Sub(rx, x), c), Mul(Sub(ry, y), s)), minSize(el))
      wr == Max(Add(Mul(Sub(x, lx), c), Mul(Sub(y, ly), s)), minSize(el))
      ht == SetHeight(el, Max(Sub(Mul(Sub(by, y), c), Mul(Sub(bx, x), s)),
                              minSize(el)))
      hb == SetHeight(el, Max(Sub(Mul(Sub(y, ty), c), Mul(Sub(x, tx), s)),
                              minSize(el)))
  IN  CASE dir = "l" ->
             [el EXCEPT !.width = wl, !.x0 = Sub(rx, Half(Mul(wl, c))),
                        !.y0 = Sub(ry, Half(Mul(wl, s)))]
        [] dir = "r" ->
             [el EXCEPT !.width = wr, !.x0 = Add(lx, Half(Mul(wr, c))),
                        !.y0 = Add(ly, Half(Mul(wr, s)))]
        [] dir = "t" ->
             [el EXCEPT !.height = ht, !.x0 = Add(bx, Half(Mul(ht, s))),
                        !.y0 = Sub(by, Half(Mul(ht, c)))]
        [] dir = "b" ->
             [el EXCEPT !.height = hb, !.x0 = Sub(tx, Half(Mul(hb, s))),
                        !.y0 = Add(ty, Half(Mul(hb, c)))]

\* bounds of the single-element gesture runs
MaxDowns == 1

MaxMoves == 2

\* the control is rendered for the single selected element while its x0 is
\* finite
ControlShown(id) ==
  /\ id \in SingleSelected
  /\ IsFinite(els[id].x0)

\* pointer-down on a corner or edge handle (one pointer: the handle holds its
\* capture until pointer-up)
onPointerdown(handle) ==
  /\ \E id \in SingleSelected :
       /\ ControlShown(id)
       /\ handle \in CornerHandles(els[id]) \cup BorderHandles(els[id])
       /\ ~currentDrag.active
       /\ budget.downs < MaxDowns
       /\ currentDrag' = DragSession(els[id], handle)
       /\ gesture' = GestureOf("resize", {id})
       /\ ev' = [op |-> "onPointerdown", id |-> id, handle |-> handle]
  /\ budget' = [budget EXCEPT !.downs = @ + 1]
  /\ script' = script
  /\ UNCHANGED <<els, history, redoStack, posStr, selection,
                 activeSnapLines, pointerDrag,
                 rotation, groupDrag, groupRotation, currentCropDrag, updater, env>>

\* pointer-move on the corner handle that holds the capture
cornerMove(x, y, shiftKey) ==
  /\ \E id \in SingleSelected :
       /\ ControlShown(id)
       /\ currentDrag.active
       /\ currentDrag.handle \in {"lt", "rb", "lb", "rt"}
       /\ budget.moves < MaxMoves
       /\ LET new == WidthWatch([els EXCEPT ![id] =
                        cornerMoveResult(@, currentDrag, currentDrag.handle,
                                         x, y, shiftKey)])
          IN  /\ els' = new
              /\ posStr' = PositionWatch(new)
       /\ ev' = [op |-> "cornerMove", id |-> id, handle |-> currentDrag.handle,
                 x |-> x, y |-> y, shiftKey |-> shiftKey]
  /\ budget' = [budget EXCEPT !.moves = @ + 1]
  /\ script' = ScriptAfterChange
  /\ UNCHANGED <<history, redoStack, gestureVars>>

\* pointer-move on the edge handle that holds the capture
borderMove(x, y, shiftKey) ==
  /\ \E id \in SingleSelected :
       /\ ControlShown(id)
       /\ currentDrag.active
       /\ currentDrag.handle \in {"l", "r", "t", "b"}
       /\ budget.moves < MaxMoves
       /\ LET new == WidthWatch([els EXCEPT ![id] =
                        borderMoveResult(@, currentDrag, currentDrag.handle,
                                         x, y)])
          IN  /\ els' = new
              /\ posStr' = PositionWatch(new)
       /\ ev' = [op |-> "borderMove", id |-> id, handle |-> currentDrag.handle,
                 x |-> x, y |-> y, shiftKey |-> shiftKey]
  /\ budget' = [budget EXCEPT !.moves = @ + 1]
  /\ script' = ScriptAfterChange
  /\ UNCHANGED <<history, redoStack, gestureVars>>

\* pointer-up on a corner or edge handle
onPointerup ==
  /\ \E id \in SingleSelected : ControlShown(id)
  /\ currentDrag.active
  /\ currentDrag.handle \in {"lt", "rb", "lb", "rt", "l", "r", "t", "b"}
  /\ currentDrag' = NoSession
  /\ ev' = [op |-> "onPointerup"]
  /\ script' = script
  /\ UNCHANGED <<els, history, redoStack, posStr, selection,
                 activeSnapLines, pointerDrag,
                 rotation, groupDrag, groupRotation, budget, gesture, currentCropDrag, updater, env>>

(***************************************************************************)
(* Resize specification: one selected element (a box at rotation 0, Theta  *)
(* or 90, or an arrow pointing down-right or up-right) and one session on  *)
(* one of its corner or edge handles                                       *)
(***************************************************************************)
Arrow(x0, y0, w, h) ==
  Element(I(x0), I(y0), I(w), I(h), I(0), 100, NoCrop, TRUE, FALSE, "prop")

ResizeStarts ==
  { Box(150, 150, 100, 100, I(0)), Box(150, 150, 100, 50, ThetaDeg),
    Box(150, 150, 100, 50, I(90)),
    Arrow(150, 150, 100, 50), Arrow(150, 150, 100, -50) }

\* pointer positions in slide coordinates
ResizePointers == { <<250, 250>>, <<120, 130>>, <<80, 250>> }

InitResize ==
  /\ els \in {[id \in {"a"} |-> e] : e \in ResizeStarts}
  /\ history = [id \in {"a"} |-> << >>]
  /\ redoStack = [id \in {"a"} |-> << >>]
  /\ posStr = [id \in {"a"} |-> EncodePos(els[id])]
  /\ selection = << "a" >>
  /\ NoGestureInit

NextResize ==
  \/ \E h \in {"lt", "rb", "lb", "rt", "l", "r", "t", "b"} : onPointerdown(h)
  \/ \E p \in ResizePointers, k \in BOOLEAN : cornerMove(I(p[1]), I(p[2]), k)
  \/ \E p \in ResizePointers, k \in BOOLEAN : borderMove(I(p[1]), I(p[2]), k)
  \/ onPointerup

SpecResize == InitResize /\ [][NextResize]_vars

\* the world position of the point (u, v) of the local frame of a geometry
WorldPoint(g, u, v) ==
  [x |-> Add(g.x0, Sub(Mul(u, Cos(g.rotate)), Mul(v, Sin(g.rotate)))),
   y |-> Add(g.y0, Add(Mul(u, Sin(g.rotate)), Mul(v, Cos(g.rotate))))]

\* the local coordinates, about the point a, of the world point (x, y)
LocalVector(a, deg, x, y) ==
  [u |-> Add(Mul(Sub(x, a.x), Cos(deg)), Mul(Sub(y, a.y), Sin(deg))),
   v |-> Sub(Mul(Sub(y, a.y), Cos(deg)), Mul(Sub(x, a.x), Sin(deg)))]

\* +1 when the handle drags the right (bottom) side, -1 for the left (top)
HandleDirX(handle) == IF handle \in {"lt", "lb"} THEN -1 ELSE 1

HandleDirY(handle) == IF handle \in {"lt", "rt"} THEN -1 ELSE 1

\* the corner of geometry g diagonally opposite a corner handle
OppositeCorner(g, handle) ==
  WorldPoint(g, Mul(I(-HandleDirX(handle)), Half(g.width)),
                Mul(I(-HandleDirY(handle)), Half(g.height)))

\* C2: after every pointer-move of a corner-resize session the corner
\* diagonally opposite the dragged handle is where it was at pointer-down,
\* for every rotation, with and without Shift, clamped or not.
C2_OppositeCornerFixed ==
  ev.op = "cornerMove"
    => OppositeCorner(els[ev.id], ev.handle)
         = OppositeCorner(currentDrag, ev.handle)

\* C2, outside the aspect lock on an arrow: the opposite corner stays fixed
C2_AnchoredUnlessArrowAspect ==
  (ev.op = "cornerMove" /\ ~(els[ev.id].isArrow /\ ev.shiftKey))
    => OppositeCorner(els[ev.id], ev.handle)
         = OppositeCorner(currentDrag, ev.handle)

\* a corner move with Shift on a rotated box that the floor clamped
C2_Witness ==
  /\ ev.op = "cornerMove" /\ ev.shiftKey
  /\ els[ev.id].rotate = ThetaDeg
  /\ els[ev.id].height = I(40)
  /\ OppositeCorner(els[ev.id], ev.handle) = OppositeCorner(currentDrag, ev.handle)

\* C3: a resize pointer-move with Shift held (corner or edge handle) commits a
\* size whose width / height equals the width / height at pointer-down.
C3_AspectKept ==
  (ev.op \in {"cornerMove", "borderMove"} /\ ev.shiftKey)
    => Div(els[ev.id].width, els[ev.id].height)
         = Div(currentDrag.width, currentDrag.height)

\* C3 on the corner handles of a box: the ratio is kept
C3_CornerAspectKeptOnBox ==
  (ev.op = "cornerMove" /\ ev.shiftKey /\ ~els[ev.id].isArrow)
    => Div(els[ev.id].width, els[ev.id].height)
         = Div(currentDrag.width, currentDrag.height)

\* an edge move with Shift held that changed the width
C3_Witness ==
  /\ ev.op = "borderMove" /\ ev.shiftKey
  /\ els[ev.id].width # currentDrag.width

\* the projections of (pointer - anchor) on the local axes, signed so that
\* dragging away from the anchor is positive
Projection(handle, x, y) ==
  LET a == OppositeCorner(currentDrag, handle)
      l == LocalVector(a, currentDrag.rotate, x, y)
  IN  [w |-> Mul(I(HandleDirX(handle)), l.u),
       h |-> Mul(I(HandleDirY(handle)), l.v)]

\* C8 (amended): a corner move without modifiers commits width and height
\* equal to the local-axis projections of (pointer - anchor), each raised to
\* the minimum size (40; none for an arrow), and the centre halfway between
\* the anchor and the dragged corner of that size; the box at (150,150) of
\* size (100,100) whose bottom-right handle is dragged to (250,250) gets size
\* (150,150), centre (175,175) and keeps its top-left corner at (100,100).
C8_CornerResize ==
  (ev.op = "cornerMove" /\ ~ev.shiftKey)
    => LET el == els[ev.id]
           a == OppositeCorner(currentDrag, ev.handle)
           p == Projection(ev.handle, ev.x, ev.y)
           w == Max(p.w, minSize(el))
           h == Max(p.h, minSize(el))
       IN  /\ el.width = w /\ el.height = h
           /\ el.x0 = Add(a.x, Half(Sub(Mul(Mul(I(HandleDirX(ev.handle)), w),
                                            Cos(el.rotate)),
                                        Mul(Mul(I(HandleDirY(ev.handle)), h),
                                            Sin(el.rotate)))))
           /\ el.y0 = Add(a.y, Half(Add(Mul(Mul(I(HandleDirX(ev.handle)), w),
                                            Sin(el.rotate)),
                                        Mul(Mul(I(HandleDirY(ev.handle)), h),
                                            Cos(el.rotate)))))
           /\ (/\ currentDrag.x0 = I(150) /\ currentDrag.y0 = I(150)
               /\ currentDrag.width = I(100) /\ currentDrag.height = I(100)
               /\ currentDrag.rotate = I(0)
               /\ ev.handle = "rb" /\ ev.x = I(250) /\ ev.y = I(250))
                => /\ el.width = I(150) /\ el.height = I(150)
                   /\ el.x0 = I(175) /\ el.y0 = I(175)
                   /\ OppositeCorner(el, "rb") = [x |-> I(100), y |-> I(100)]

\* the scenario has run: the bottom-right handle of the box at (150,150) of
\* size (100,100) was dragged to (250,250) without modifiers
C8_Witness ==
  /\ ev.op = "cornerMove" /\ ~ev.shiftKey /\ ev.handle = "rb"
  /\ currentDrag.rotate = I(0) /\ currentDrag.x0 = I(150)
  /\ currentDrag.width = I(100) /\ currentDrag.height = I(100)
  /\ ev.x = I(250) /\ ev.y = I(250)
  /\ els[ev.id].width = I(150) /\ els[ev.id].x0 = I(175)

\* C8 as stated: width and height are the projections themselves and the
\* centre is the midpoint of anchor and pointer
C8_ProjectionUnclamped ==
  (ev.op = "cornerMove" /\ ~ev.shiftKey)
    => LET el == els[ev.id]
           a == OppositeCorner(currentDrag, ev.handle)
           p == Projection(ev.handle, ev.x, ev.y)
       IN  /\ el.width = p.w /\ el.height = p.h
           /\ el.x0 = Half(Add(a.x, ev.x))
           /\ el.y0 = Half(Add(a.y, ev.y))

\* centre, size and rotation are all numbers other than NaN and +-Infinity
FiniteGeometry(el) ==
  /\ IsFinite(el.x0) /\ IsFinite(el.y0)
  /\ IsFinite(el.width) /\ IsFinite(el.height)
  /\ IsFinite(el.rotate)

\* C27: no resize pointer-move (corner or edge handle, any element kind, with
\* or without Shift) commits a non-finite centre, width, height or rotation.
C27_FiniteCommit ==
  ev.op \in {"cornerMove", "borderMove"} => FiniteGeometry(els[ev.id])

\* C27 on a box: every resize pointer-move of a non-arrow element commits a
\* finite geometry whose width and height are at least the floor of 40
C27_FiniteFlooredOnBox ==
  (ev.op \in {"cornerMove", "borderMove"} /\ ~els[ev.id].isArrow)
    => /\ FiniteGeometry(els[ev.id])
       /\ Le(I(40), els[ev.id].width)
       /\ Le(I(40), els[ev.id].height)

\* a corner move on a box whose pointer crossed the anchor: the floor is
\* committed for both sides
C27_Witness ==
  /\ ev.op = "cornerMove" /\ ~els[ev.id].isArrow /\ ~ev.shiftKey
  /\ Lt(Projection(ev.handle, ev.x, ev.y).w, I(0))
  /\ els[ev.id].width = I(40)
  /\ FiniteGeometry(els[ev.id])

\* C28: on an arrow a corner move with Shift held commits the same centre,
\* width and height as the same pointer position without Shift.
C28_ArrowShiftIgnored ==
  (ev.op = "cornerMove" /\ els[ev.id].isArrow /\ ev.shiftKey)
    => els[ev.id] = cornerMoveResult(els[ev.id], currentDrag, ev.handle,
                                     ev.x, ev.y, FALSE)

\* C28 as the handler behaves: on an arrow whose width and height at
\* pointer-down have the same sign a corner move with Shift commits the
\* aspect-locked size max(w1, h1 * ratio), w / ratio of the projections
\* (w1, h1), without a floor
C28_ArrowShiftLocksAspect ==
  (/\ ev.op = "cornerMove" /\ els[ev.id].isArrow /\ ev.shiftKey
   /\ Lt(I(0), Div(currentDrag.width, currentDrag.height)))
    => LET ratio == Div(currentDrag.width, currentDrag.height)
           p == Projection(ev.handle, ev.x, ev.y)
           w == Max(p.w, Mul(p.h, ratio))
       IN  /\ els[ev.id].width = w
           /\ els[ev.id].height = Div(w, ratio)

\* a Shift corner move on a down-right arrow whose committed height differs
\* from the height the same pointer gives without Shift
C28_Witness ==
  /\ ev.op = "cornerMove" /\ els[ev.id].isArrow /\ ev.shiftKey
  /\ Lt(I(0), Div(currentDrag.width, currentDrag.height))
  /\ els[ev.id].height # Projection(ev.handle, ev.x, ev.y).h
  /\ FiniteGeometry(els[ev.id])

\* C31: after every pointer-move of a corner or edge resize on a non-arrow
\* element each dimension the handle drives (both for a corner, the width
\* for the left and right edges, the height for the top and bottom edges) is
\* at least 40; with Shift held on a corner both are at least 40 and the
\* width / height ratio of pointer-down is kept.
C31_DrivenDimensionsFloored ==
  (ev.op \in {"cornerMove", "borderMove"} /\ ~els[ev.id].isArrow)
    => LET el == els[ev.id]
           drivesWidth == ev.handle \in {"lt", "rb", "lb", "rt", "l", "r"}
           drivesHeight == ev.handle \in {"lt", "rb", "lb", "rt", "t", "b"}
       IN  /\ drivesWidth => Le(I(40), el.width)
           /\ drivesHeight => Le(I(40), el.height)
           /\ (ev.op = "cornerMove" /\ ev.shiftKey)
                => /\ Le(I(40), el.width) /\ Le(I(40), el.height)
                   /\ Mul(el.width, currentDrag.height)
                        = Mul(el.height, currentDrag.width)

\* a Shift corner move on the 100 x 50 box whose pointer crossed the anchor:
\* the floor is applied after the aspect adjustment, giving 80 x 40
C31_Witness ==
  /\ ev.op = "cornerMove" /\ ev.shiftKey /\ ~els[ev.id].isArrow
  /\ Lt(Projection(ev.handle, ev.x, ev.y).w, I(40))
  /\ Lt(Projection(ev.handle, ev.x, ev.y).h, I(40))
  /\ els[ev.id].width = I(80) /\ els[ev.id].height = I(40)

(***************************************************************************)
(* Auto-height history specification: one selected auto-height element     *)
(* (width 200, laid out 100 high), its left and right edge handles and its *)
(* history                                                                 *)
(***************************************************************************)
AutoBox(x0, y0, w) ==
  Element(I(x0), I(y0), I(w), Half(I(w)), I(0), 100, NoCrop, FALSE, TRUE,
          "frontmatter")

AutoPointers == { <<350, 150>>, <<120, 150>> }

InitAutoHistory ==
  /\ els = [id \in {"a"} |-> AutoBox(150, 150, 200)]
  /\ history = [id \in {"a"} |-> << >>]
  /\ redoStack = [id \in {"a"} |-> << >>]
  /\ posStr = [id \in {"a"} |-> EncodePos(els[id])]
  /\ selection = << "a" >>
  /\ NoGestureInit

NextAutoHistory ==
  \/ \E id \in DOMAIN els : saveSnapshot(id)
  \/ \E id \in DOMAIN els : undo(id)
  \/ \E id \in DOMAIN els : redo(id)
  \/ \E h \in {"l", "r"} : onPointerdown(h)
  \/ \E p \in AutoPointers : borderMove(I(p[1]), I(p[2]), FALSE)
  \/ onPointerup

SpecAutoHistory == InitAutoHistory /\ [][NextAutoHistory]_vars

(***************************************************************************)
(* DragControl.vue: rotate handle of the single selected element           *)
(***************************************************************************)
hasCrop(el) ==
  Lt(I(0), el.cropTop) \/ Lt(I(0), el.cropRight)
    \/ Lt(I(0), el.cropBottom) \/ Lt(I(0), el.cropLeft)

fullWidth(el) == MathAbs(el.width)

fullHeight(el) == MathAbs(el.height)

\* crop offset in the local frame of the element
cropOffsetLocalX(el) ==
  Half(Mul(Div(Sub(el.cropLeft, el.cropRight), I(100)), fullWidth(el)))

cropOffsetLocalY(el) ==
  Half(Mul(Div(Sub(el.cropTop, el.cropBottom), I(100)), fullHeight(el)))

visibleCenterX(el) ==
  Sub(Add(el.x0, Mul(cropOffsetLocalX(el), Cos(el.rotate))),
      Mul(cropOffsetLocalY(el), Sin(el.rotate)))

visibleCenterY(el) ==
  Add(Add(el.y0, Mul(cropOffsetLocalX(el), Sin(el.rotate))),
      Mul(cropOffsetLocalY(el), Cos(el.rotate)))

\* the angle of the pointer seen from the pivot, 0 = straight up
getAngleFromPivot(x, y, pivotX, pivotY) ==
  Atan2Deg(Sub(x, pivotX), Neg(Sub(y, pivotY)))

\* the pointer is in a direction whose angle the table holds
AngleKnown(x, y, pivotX, pivotY) ==
  InTableDir(Sub(x, pivotX), Neg(Sub(y, pivotY)))

\* Math.round(angle / 15) * 15
Snap15(angle) == Mul(Round(Div(angle, I(15))), I(15))

\* rotateAngle that snaps whether or not Shift is held
rotateAngleAlwaysSnap(rot, x, y, shiftKey) ==
  LET currentMouseAngle == getAngleFromPivot(x, y, rot.pivotX, rot.pivotY)
      delta == Sub(currentMouseAngle, rot.startMouseAngle)
      angle == Normalize360(Add(rot.startAngle, delta))
  IN  Snap15(angle)

\* the angle a pointer-move of the rotate handle commits
rotateAngle(rot, x, y, shiftKey) ==
  LET currentMouseAngle == getAngleFromPivot(x, y, rot.pivotX, rot.pivotY)
      delta == Sub(currentMouseAngle, rot.startMouseAngle)
      angle == Normalize360(Add(rot.startAngle, delta))
  IN  IF shiftKey THEN Snap15(angle) ELSE angle

\* a pointer-move of the rotate handle that leaves x0 / y0 alone
rotateMoveNoRecentre(el, rot, x, y, shiftKey) ==
  [el EXCEPT !.rotate = rotateAngle(rot, x, y, shiftKey)]

\* the element after onPointermove of the rotate handle
rotateMoveResult(el, rot, x, y, shiftKey) ==
  LET angle == rotateAngle(rot, x, y, shiftKey)
      cos == Cos(angle)
      sin == Sin(angle)
  IN  IF hasCrop(el)
        THEN [el EXCEPT
                !.rotate = angle,
                !.x0 = Sub(rot.pivotX, Sub(Mul(cropOffsetLocalX(el), cos),
                                           Mul(cropOffsetLocalY(el), sin))),
                !.y0 = Sub(rot.pivotY, Add(Mul(cropOffsetLocalX(el), sin),
                                           Mul(cropOffsetLocalY(el), cos)))]
        ELSE [el EXCEPT !.rotate = angle]

\* currentDrag as the rotate handle's pointer-down fills it
RotateSession(el) ==
  [active |-> TRUE, handle |-> "rotate",
   x0 |-> el.x0, y0 |-> el.y0, width |-> el.width, height |-> el.height,
   rotate |-> el.rotate,
   ltx |-> I(0), lty |-> I(0), rtx |-> I(0), rty |-> I(0),
   lbx |-> I(0), lby |-> I(0), rbx |-> I(0), rby |-> I(0)]

\* pointer-down on the rotate handle, the pointer at (x, y)
rotatePointerdown(x, y) ==
  /\ \E id \in SingleSelected :
       LET el == els[id]
           pivotX == IF hasCrop(el) THEN visibleCenterX(el) ELSE el.x0
           pivotY == IF hasCrop(el) THEN visibleCenterY(el) ELSE el.y0
       IN  /\ ControlShown(id)
           /\ ~el.isArrow
           /\ ~currentDrag.active
           /\ budget.downs < MaxDowns
           /\ AngleKnown(x, y, pivotX, pivotY)
           /\ rotation' = [isRotating |-> TRUE,
                           startAngle |-> el.rotate,
                           startMouseAngle |->
                             getAngleFromPivot(x, y, pivotX, pivotY),
                           pivotX |-> pivotX, pivotY |-> pivotY]
           /\ currentDrag' = RotateSession(el)
           /\ gesture' = GestureOf("rotate", {id})
           /\ ev' = [op |-> "rotatePointerdown", id |-> id, x |-> x, y |-> y]
  /\ budget' = [budget EXCEPT !.downs = @ + 1]
  /\ script' = script
  /\ UNCHANGED <<els, history, redoStack, posStr, selection,
                 activeSnapLines, pointerDrag,
                 groupDrag, groupRotation, currentCropDrag, updater, env>>

\* pointer-move on the rotate handle, the pointer at (x, y)
rotateMove(x, y, shiftKey) ==
  /\ \E id \in SingleSelected :
       /\ ControlShown(id)
       /\ currentDrag.active
       /\ currentDrag.handle = "rotate"
       /\ budget.moves < MaxMoves
       /\ AngleKnown(x, y, rotation.pivotX, rotation.pivotY)
       /\ InTable(rotateAngle(rotation, x, y, shiftKey))
       /\ LET new == [els EXCEPT ![id] =
                        rotateMoveResult(@, rotation, x, y, shiftKey)]
          IN  /\ els' = new
              /\ posStr' = PositionWatch(new)
       /\ ev' = [op |-> "rotateMove", id |-> id, x |-> x, y |-> y,
                 shiftKey |-> shiftKey]
  /\ budget' = [budget EXCEPT !.moves = @ + 1]
  /\ script' = ScriptAfterChange
  /\ UNCHANGED <<history, redoStack, gestureVars>>

\* pointer-up on the rotate handle
rotatePointerup ==
  /\ \E id \in SingleSelected : ControlShown(id)
  /\ currentDrag.active
  /\ currentDrag.handle = "rotate"
  /\ rotation' = [isRotating |-> FALSE]
  /\ currentDrag' = NoSession
  /\ ev' = [op |-> "rotatePointerup"]
  /\ script' = script
  /\ UNCHANGED <<els, history, redoStack, posStr, selection,
                 activeSnapLines, pointerDrag,
                 groupDrag, groupRotation, budget, gesture, currentCropDrag, updater, env>>

(***************************************************************************)
(* Rotate specification: one selected box, cropped (top 20, left 10) or    *)
(* not, at rotation 0 or Theta, and one session on its rotate handle       *)
(***************************************************************************)
CroppedBox(r) ==
  Element(I(150), I(150), I(200), I(100), r, 100,
          <<I(20), I(0), I(0), I(10)>>, FALSE, FALSE, "frontmatter")

RotateStarts ==
  { CroppedBox(I(0)), CroppedBox(ThetaDeg), Box(150, 150, 200, 100, I(0)) }

\* pointer positions relative to the pivot: at 0, Theta, 90, Phi and
\* 90 + Phi degrees clockwise from straight up
RotateOffsets ==
  { <<0, -50>>, <<40, -30>>, <<50, 0>>, <<17, -144>>, <<144, 17>> }

InitRotate ==
  /\ els \in {[id \in {"a"} |-> e] : e \in RotateStarts}
  /\ history = [id \in {"a"} |-> << >>]
  /\ redoStack = [id \in {"a"} |-> << >>]
  /\ posStr = [id \in {"a"} |-> EncodePos(els[id])]
  /\ selection = << "a" >>
  /\ NoGestureInit

NextRotate ==
  \/ \E o \in RotateOffsets :
       LET el == els[selection[1]]
       IN  rotatePointerdown(
             Add(IF hasCrop(el) THEN visibleCenterX(el) ELSE el.x0, I(o[1])),
             Add(IF hasCrop(el) THEN visibleCenterY(el) ELSE el.y0, I(o[2])))
  \/ \E o \in RotateOffsets, k \in BOOLEAN :
       /\ rotation.isRotating
       /\ rotateMove(Add(rotation.pivotX, I(o[1])),
                     Add(rotation.pivotY, I(o[2])), k)
  \/ rotatePointerup

SpecRotate == InitRotate /\ [][NextRotate]_vars

\* the angle the pointer of the last rotate move stands for: the rotation at
\* pointer-down plus the change of the pointer's angle about the pivot
PointerAngle ==
  Normalize360(Add(rotation.startAngle,
                   Sub(getAngleFromPivot(ev.x, ev.y, rotation.pivotX,
                                         rotation.pivotY),
                       rotation.startMouseAngle)))

CommonAngles == {0, 45, 90, 135, 180, 225, 270, 315, 360}

\* closer than 5 degrees
CloseTo(angle, a) == Lt(Sub(angle, I(a)), I(5)) /\ Lt(Sub(I(a), angle), I(5))

\* C29: a rotate pointer-move without a modifier whose pointer angle is
\* close to a common angle (0, 45, 90, ...) commits exactly that angle.
C29_SnapsWhenClose ==
  (ev.op = "rotateMove" /\ ~ev.shiftKey)
    => \A a \in CommonAngles :
         CloseTo(PointerAngle, a) => els[ev.id].rotate = I(a % 360)

\* C29 as the handler behaves: without Shift a rotate pointer-move commits
\* the pointer angle itself, however close to a common angle it is; with
\* Shift it commits the nearest multiple of 15
C29_SnapOnlyWithShift ==
  ev.op = "rotateMove"
    => els[ev.id].rotate
         = IF ev.shiftKey THEN Snap15(PointerAngle) ELSE PointerAngle

\* a rotate move without Shift whose pointer angle is 46.4, within 5 degrees
\* of 45, and is committed as it is
C29_Witness ==
  /\ ev.op = "rotateMove" /\ ~ev.shiftKey
  /\ CloseTo(PointerAngle, 45)
  /\ els[ev.id].rotate = Q(232, 5)

\* C4: after every pointer-move of a rotate session on a cropped element,
\* with or without the 15-degree snap, the visible (cropped) centre is at the
\* pivot, which is the visible centre the element had at pointer-down.
C4_VisibleCentreFixed ==
  (ev.op = "rotateMove" /\ hasCrop(els[ev.id]))
    => LET el == els[ev.id]
           start == [el EXCEPT !.x0 = currentDrag.x0, !.y0 = currentDrag.y0,
                               !.rotate = currentDrag.rotate]
       IN  /\ visibleCenterX(el) = visibleCenterX(start)
           /\ visibleCenterY(el) = visibleCenterY(start)
           /\ rotation.pivotX = visibleCenterX(start)
           /\ rotation.pivotY = visibleCenterY(start)

\* a snapped rotate move on a cropped element changed its angle and centre
C4_Witness ==
  /\ ev.op = "rotateMove" /\ ev.shiftKey /\ hasCrop(els[ev.id])
  /\ els[ev.id].rotate # currentDrag.rotate
  /\ els[ev.id].x0 # currentDrag.x0
  /\ els[ev.id].rotate
       # rotateAngle(rotation, ev.x, ev.y, FALSE)

(***************************************************************************)
(* useGroupBounds.ts: bounding box of the selected elements                *)
(***************************************************************************)
\* the corners of the rectangle with its rotation ignored
getRotatedCornersAxisAligned(x0, y0, width, height, rotateDeg) ==
  << [x |-> Sub(x0, Half(width)), y |-> Sub(y0, Half(height))],
     [x |-> Add(x0, Half(width)), y |-> Sub(y0, Half(height))],
     [x |-> Add(x0, Half(width)), y |-> Add(y0, Half(height))],
     [x |-> Sub(x0, Half(width)), y |-> Add(y0, Half(height))] >>

\* the four corners of a rotated rectangle, in world coordinates
getRotatedCorners(x0, y0, width, height, rotateDeg) ==
  LET corners(cos, sin, hw, hh) ==
        LET localCorners == << [x |-> Neg(hw), y |-> Neg(hh)],
                               [x |-> hw, y |-> Neg(hh)],
                               [x |-> hw, y |-> hh],
                               [x |-> Neg(hw), y |-> hh] >>
        IN  [i \in 1 .. 4 |->
               [x |-> Sub(Add(x0, Mul(localCorners[i].x, cos)),
                          Mul(localCorners[i].y, sin)),
                y |-> Add(Add(y0, Mul(localCorners[i].x, sin)),
                          Mul(localCorners[i].y, cos))]]
  IN  corners(Cos(rotateDeg), Sin(rotateDeg), Half(width), Half(height))

RECURSIVE AllCorners(_)
AllCorners(elements) ==
  IF elements = << >> THEN << >>
  ELSE LET el == Head(elements)
       IN  getRotatedCorners(el.x0, el.y0, el.width, el.height, el.rotate)
             \o AllCorners(Tail(elements))

RECURSIVE FoldCorners(_, _)
FoldCorners(corners, acc) ==
  IF corners = << >> THEN acc
  ELSE FoldCorners(Tail(corners),
         [minX |-> Min(acc.minX, Head(corners).x),
          minY |-> Min(acc.minY, Head(corners).y),
          maxX |-> Max(acc.maxX, Head(corners).x),
          maxY |-> Max(acc.maxY, Head(corners).y)])

\* computeGroupBounds(elements); [isNull |-> TRUE] stands for null
computeGroupBounds(elements) ==
  IF Len(elements) = 0 THEN [isNull |-> TRUE]
  ELSE LET box(m, width, height) ==
             [isNull |-> FALSE,
              minX |-> m.minX, minY |-> m.minY,
              maxX |-> m.maxX, maxY |-> m.maxY,
              width |-> width, height |-> height,
              centerX |-> Add(m.minX, Half(width)),
              centerY |-> Add(m.minY, Half(height))]
           extent(m) == box(m, Sub(m.maxX, m.minX), Sub(m.maxY, m.minY))
       IN  extent(FoldCorners(AllCorners(elements),
                    [minX |-> Infinity, minY |-> Infinity,
                     maxX |-> NegInfinity, maxY |-> NegInfinity]))

\* the selected elements, in the order they were selected
selectedElements == [i \in 1 .. Len(selection) |-> els[selection[i]]]

SelectedIds == {selection[i] : i \in 1 .. Len(selection)}

bounds == computeGroupBounds(selectedElements)

computeElementOffsets(ids, groupCenter) ==
  [id \in ids |-> [offsetX |-> Sub(els[id].x0, groupCenter.x),
                   offsetY |-> Sub(els[id].y0, groupCenter.y)]]

(***************************************************************************)
(* GroupDragControl.vue: corner and rotate handles of the group box        *)
(***************************************************************************)
\* currentDrag of the group control
GroupSession(handle, b) ==
  [active |-> TRUE, handle |-> handle,
   groupCenterX |-> b.centerX, groupCenterY |-> b.centerY,
   groupBounds |-> [minX |-> b.minX, minY |-> b.minY,
                    maxX |-> b.maxX, maxY |-> b.maxY,
                    width |-> b.width, height |-> b.height],
   elementOffsets |->
     computeElementOffsets(SelectedIds, [x |-> b.centerX, y |-> b.centerY]),
   elementSnapshots |->
     [id \in SelectedIds |->
        [x0 |-> els[id].x0, y0 |-> els[id].y0, width |-> els[id].width,
         height |-> els[id].height, rotate |-> els[id].rotate]]]

\* el.saveSnapshot() for every selected element
SaveSelected ==
  /\ history' = [id \in DOMAIN history |->
                   IF id \in SelectedIds
                     THEN saveSnapshotStack(history[id], els[id])
                     ELSE history[id]]
  /\ redoStack' = [id \in DOMAIN redoStack |->
                     IF id \in SelectedIds THEN << >> ELSE redoStack[id]]

\* the group control is mounted while more than one element is selected
GroupShown == Len(selection) > 1 /\ ~bounds.isNull

\* the new group box of a resize pointer-move at (mouseX, mouseY)
groupResizeBox(d, mouseX, mouseY, shiftKey) ==
  LET isLeft == d.handle \in {"lt", "lb"}
      isTop == d.handle \in {"lt", "rt"}
      origBounds == d.groupBounds
      anchorX == IF isLeft THEN origBounds.maxX ELSE origBounds.minX
      anchorY == IF isTop THEN origBounds.maxY ELSE origBounds.minY
      origWidth == origBounds.width
      origHeight == origBounds.height
      box(newWidth, newHeight) ==
        [newWidth |-> newWidth, newHeight |-> newHeight,
         scaleX |-> Div(newWidth, origWidth),
         scaleY |-> Div(newHeight, origHeight),
         newCenterX |-> IF isLeft THEN Sub(anchorX, Half(newWidth))
                                  ELSE Add(anchorX, Half(newWidth)),
         newCenterY |-> IF isTop THEN Sub(anchorY, Half(newHeight))
                                 ELSE Add(anchorY, Half(newHeight))]
      \* if (e.shiftKey) { if (newRatio > origRatio) ... else ... }
      locked(w1, h1, origRatio, newRatio) ==
        box(IF shiftKey /\ Lt(origRatio, newRatio)
              THEN Mul(h1, origRatio) ELSE w1,
            IF shiftKey /\ ~Lt(origRatio, newRatio)
              THEN Div(w1, origRatio) ELSE h1)
      clamped(w1, h1) ==
        locked(w1, h1, Div(origWidth, origHeight), Div(w1, h1))
  IN  clamped(Max(IF isLeft THEN Sub(anchorX, mouseX) ELSE Sub(mouseX, anchorX),
                  I(40)),
              Max(IF isTop THEN Sub(anchorY, mouseY) ELSE Sub(mouseY, anchorY),
                  I(40)))

\* a member after a resize move that scales sizes but leaves offsets alone
groupResizeMemberKeepOffset(el, snapshot, offset, b) ==
  LET moved == [el EXCEPT !.x0 = Add(b.newCenterX, offset.offsetX),
                          !.y0 = Add(b.newCenterY, offset.offsetY)]
  IN  IF el.isArrow THEN moved
      ELSE [moved EXCEPT !.width = Mul(snapshot.width, b.scaleX),
                         !.height = SetHeight(el, Mul(snapshot.height, b.scaleY))]

\* a member after a resize move that scales offsets but leaves sizes alone
groupResizeMemberKeepSize(el, snapshot, offset, b) ==
  [el EXCEPT !.x0 = Add(b.newCenterX, Mul(offset.offsetX, b.scaleX)),
             !.y0 = Add(b.newCenterY, Mul(offset.offsetY, b.scaleY))]

\* a member of the group after a resize pointer-move with new box b
groupResizeMember(el, snapshot, offset, b) ==
  LET moved == [el EXCEPT
                  !.x0 = Add(b.newCenterX, Mul(offset.offsetX, b.scaleX)),
                  !.y0 = Add(b.newCenterY, Mul(offset.offsetY, b.scaleY))]
  IN  IF el.isArrow THEN moved
      ELSE [moved EXCEPT !.width = Mul(snapshot.width, b.scaleX),
                         !.height = SetHeight(el, Mul(snapshot.height, b.scaleY))]

\* bound of the group sessions
MaxGroupDowns == 1

MaxGroupMoves == 2

\* pointer-down on a corner handle of the group box
groupPointerdown(handle) ==
  /\ GroupShown
  /\ handle \in {"lt", "rt", "lb", "rb"}
  /\ ~groupDrag.active
  /\ budget.downs < MaxGroupDowns
  /\ SaveSelected
  /\ groupDrag' = GroupSession(handle, bounds)
  /\ gesture' = GestureOf("groupResize", SelectedIds)
  /\ ev' = [op |-> "groupPointerdown", handle |-> handle]
  /\ budget' = [budget EXCEPT !.downs = @ + 1]
  /\ script' = NoScript
  /\ UNCHANGED <<els, posStr, selection, activeSnapLines, pointerDrag, currentDrag, currentCropDrag, updater, env,
                 rotation, groupRotation>>

\* pointer-move on the corner handle of the group box that holds the capture
groupResizeMove(mouseX, mouseY, shiftKey) ==
  /\ GroupShown
  /\ groupDrag.active
  /\ groupDrag.handle \in {"lt", "rt", "lb", "rb"}
  /\ budget.moves < MaxGroupMoves
  /\ \E b \in {groupResizeBox(groupDrag, mouseX, mouseY, shiftKey)} :
       /\ els' = WidthWatch(
                   [id \in DOMAIN els |->
                      IF id \in SelectedIds
                        THEN groupResizeMember(els[id],
                               groupDrag.elementSnapshots[id],
                               groupDrag.elementOffsets[id], b)
                        ELSE els[id]])
       /\ posStr' = PositionWatch(els')
       /\ ev' = [op |-> "groupResizeMove", handle |-> groupDrag.handle,
                 x |-> mouseX, y |-> mouseY, shiftKey |-> shiftKey,
                 newWidth |-> b.newWidth, newHeight |-> b.newHeight,
                 newCenterX |-> b.newCenterX, newCenterY |-> b.newCenterY]
  /\ budget' = [budget EXCEPT !.moves = @ + 1]
  /\ script' = NoScript
  /\ UNCHANGED <<history, redoStack, gestureVars>>

\* pointer-up on a corner handle of the group box
groupPointerup ==
  /\ GroupShown
  /\ groupDrag.active
  /\ groupDrag.handle \in {"lt", "rt", "lb", "rb"}
  /\ groupDrag' = NoSession
  /\ ev' = [op |-> "groupPointerup"]
  /\ script' = NoScript
  /\ UNCHANGED <<els, history, redoStack, posStr, selection,
                 activeSnapLines, pointerDrag,
                 currentDrag, currentCropDrag, updater, env, rotation, groupRotation, budget, gesture>>

\* the angular delta of a group rotate pointer-move at (x, y)
groupRotateDelta(rot, x, y, shiftKey) ==
  LET currentMouseAngle == getAngleFromPivot(x, y, rot.pivotX, rot.pivotY)
      delta == Sub(currentMouseAngle, rot.startMouseAngle)
  IN  IF shiftKey THEN Snap15(delta) ELSE delta

\* a member after a rotate move that turns the offsets the other way round
groupRotateMemberReversed(el, snapshot, offset, rot, delta) ==
  LET turned(cos, sin) ==
        LET newOffsetX == Add(Mul(offset.offsetX, cos), Mul(offset.offsetY, sin))
            newOffsetY == Sub(Mul(offset.offsetY, cos), Mul(offset.offsetX, sin))
        IN  [el EXCEPT !.x0 = Add(rot.pivotX, newOffsetX),
                       !.y0 = Add(rot.pivotY, newOffsetY),
                       !.rotate = Normalize360(Add(snapshot.rotate, delta))]
  IN  turned(Cos(delta), Sin(delta))

\* a member that takes the sum of rotation and delta as it is
groupRotateMemberRaw(el, snapshot, offset, rot, delta) ==
  [el EXCEPT !.x0 = Add(rot.pivotX,
                        Sub(Mul(offset.offsetX, Cos(delta)),
                            Mul(offset.offsetY, Sin(delta)))),
             !.y0 = Add(rot.pivotY,
                        Add(Mul(offset.offsetX, Sin(delta)),
                            Mul(offset.offsetY, Cos(delta)))),
             !.rotate = Add(snapshot.rotate, delta)]

\* a member of the group after a rotate pointer-move by delta
groupRotateMember(el, snapshot, offset, rot, delta) ==
  LET turned(cos, sin) ==
        LET newOffsetX == Sub(Mul(offset.offsetX, cos), Mul(offset.offsetY, sin))
            newOffsetY == Add(Mul(offset.offsetX, sin), Mul(offset.offsetY, cos))
        IN  [el EXCEPT !.x0 = Add(rot.pivotX, newOffsetX),
                       !.y0 = Add(rot.pivotY, newOffsetY),
                       !.rotate = Normalize360(Add(snapshot.rotate, delta))]
  IN  turned(Cos(delta), Sin(delta))

\* pointer-down on the rotate handle of the group box, the pointer at (x, y)
groupRotatePointerdown(x, y) ==
  /\ GroupShown
  /\ ~groupDrag.active
  /\ budget.downs < MaxGroupDowns
  /\ SaveSelected
  /\ \E b \in {bounds} :
       /\ AngleKnown(x, y, b.centerX, b.centerY)
       /\ groupRotation' = [isRotating |-> TRUE,
                            startMouseAngle |->
                              getAngleFromPivot(x, y, b.centerX, b.centerY),
                            pivotX |-> b.centerX, pivotY |-> b.centerY]
       /\ groupDrag' = GroupSession("rotate", b)
  /\ gesture' = GestureOf("groupRotate", SelectedIds)
  /\ ev' = [op |-> "groupRotatePointerdown", x |-> x, y |-> y]
  /\ budget' = [budget EXCEPT !.downs = @ + 1]
  /\ script' = NoScript
  /\ UNCHANGED <<els, posStr, selection, activeSnapLines, pointerDrag,
                 currentDrag, currentCropDrag, updater, env, rotation>>

\* pointer-move on the rotate handle of the group box, the pointer at (x, y)
groupRotateMove(x, y, shiftKey) ==
  /\ GroupShown
  /\ groupDrag.active
  /\ groupDrag.handle = "rotate"
  /\ budget.moves < MaxGroupMoves
  /\ AngleKnown(x, y, groupRotation.pivotX, groupRotation.pivotY)
  /\ \E delta \in {groupRotateDelta(groupRotation, x, y, shiftKey)} :
       /\ InTable(delta)
       /\ \A id \in SelectedIds :
            InTable(Add(groupDrag.elementSnapshots[id].rotate, delta))
       /\ els' = WidthWatch(
                   [id \in DOMAIN els |->
                      IF id \in SelectedIds
                        THEN groupRotateMember(els[id],
                               groupDrag.elementSnapshots[id],
                               groupDrag.elementOffsets[id],
                               groupRotation, delta)
                        ELSE els[id]])
       /\ posStr' = PositionWatch(els')
       /\ ev' = [op |-> "groupRotateMove", x |-> x, y |-> y,
                 shiftKey |-> shiftKey, delta |-> delta]
  /\ budget' = [budget EXCEPT !.moves = @ + 1]
  /\ script' = NoScript
  /\ UNCHANGED <<history, redoStack, gestureVars>>

\* pointer-up on the rotate handle of the group box
groupRotatePointerup ==
  /\ GroupShown
  /\ groupDrag.active
  /\ groupDrag.handle = "rotate"
  /\ groupRotation' = [isRotating |-> FALSE]
  /\ groupDrag' = NoSession
  /\ ev' = [op |-> "groupRotatePointerup"]
  /\ script' = NoScript
  /\ UNCHANGED <<els, history, redoStack, posStr, selection,
                 activeSnapLines, pointerDrag,
                 currentDrag, currentCropDrag, updater, env, rotation, budget, gesture>>

(***************************************************************************)
(* Group specification: two selected elements (two boxes side by side; a   *)
(* rotated box and an arrow; a box and an auto-height element) and one     *)
(* session on a handle of the group box                                    *)
(***************************************************************************)
GroupStarts ==
  { <<Box(100, 100, 40, 40, I(0)), Box(200, 100, 40, 40, I(0))>>,
    <<Box(100, 100, 40, 60, ThetaDeg), Arrow(200, 150, 60, -40)>>,
    <<Box(100, 100, 40, 40, I(0)), AutoBox(200, 100, 80)>> }

\* pointer positions of the group resize moves
GroupPointers == { <<300, 200>>, <<90, 130>>, <<150, 100>> }

InitGroup ==
  /\ els \in {[id \in {"a", "b"} |-> IF id = "a" THEN g[1] ELSE g[2]] :
                g \in GroupStarts}
  /\ history = [id \in {"a", "b"} |-> << >>]
  /\ redoStack = [id \in {"a", "b"} |-> << >>]
  /\ posStr = [id \in {"a", "b"} |-> EncodePos(els[id])]
  /\ selection = << "a", "b" >>
  /\ NoGestureInit

NextGroup ==
  \/ \E h \in {"lt", "rt", "lb", "rb"} : groupPointerdown(h)
  \/ \E p \in GroupPointers, k \in BOOLEAN :
       groupResizeMove(I(p[1]), I(p[2]), k)
  \/ groupPointerup
  \/ \E o \in RotateOffsets, b \in {bounds} :
       groupRotatePointerdown(Add(b.centerX, I(o[1])), Add(b.centerY, I(o[2])))
  \/ \E o \in RotateOffsets, k \in BOOLEAN :
       /\ groupRotation.isRotating
       /\ groupRotateMove(Add(groupRotation.pivotX, I(o[1])),
                          Add(groupRotation.pivotY, I(o[2])), k)
  \/ groupRotatePointerup

SpecGroup == InitGroup /\ [][NextGroup]_vars

(***************************************************************************)
(* Claims on the group resize                                              *)
(***************************************************************************)
\* the scale factors of the last group resize move: the new group width
\* and height over those of the group box at pointer-down
GroupScaleX == Div(ev.newWidth, groupDrag.groupBounds.width)

GroupScaleY == Div(ev.newHeight, groupDrag.groupBounds.height)

GroupAnchor(b, handle) ==
  [x |-> IF handle \in {"lt", "lb"} THEN b.maxX ELSE b.minX,
   y |-> IF handle \in {"lt", "rt"} THEN b.maxY ELSE b.minY]

\* C32: after every pointer-move of a group-resize session the corner,
\* opposite the dragged handle, of the group bounding box recomputed over the
\* members' rotated corners is where it was at pointer-down, for any mix of
\* member rotations and kinds.
C32_GroupAnchorFixed ==
  ev.op = "groupResizeMove"
    => GroupAnchor(bounds, ev.handle)
         = GroupAnchor(groupDrag.groupBounds, ev.handle)

\* C32 for a group of unrotated boxes of fixed height: the recomputed box
\* keeps the anchor corner and has the new width and height
C32_GroupAnchorFixedUnrotated ==
  (/\ ev.op = "groupResizeMove"
   /\ \A id \in SelectedIds :
        /\ ~els[id].isArrow /\ ~els[id].autoHeight
        /\ els[id].rotate = I(0))
    => /\ GroupAnchor(bounds, ev.handle)
            = GroupAnchor(groupDrag.groupBounds, ev.handle)
       /\ bounds.width = ev.newWidth
       /\ bounds.height = ev.newHeight

\* a group of two unrotated boxes resized by different factors on the two
\* axes
C32_Witness ==
  /\ ev.op = "groupResizeMove"
  /\ \A id \in SelectedIds :
       /\ ~els[id].isArrow /\ ~els[id].autoHeight
       /\ els[id].rotate = I(0)
  /\ GroupScaleX # GroupScaleY
  /\ GroupScaleX # I(1)
  /\ GroupAnchor(bounds, ev.handle)
       = GroupAnchor(groupDrag.groupBounds, ev.handle)

(***************************************************************************)
(* Claims on the group rotate                                              *)
(***************************************************************************)
\* a modulo 360, in [0, 360)
Mod360(a) == Sub(a, I(360 * (a.n \div (a.d * 360))))

\* the bounding box of the members as they were at pointer-down
SnapshotBounds ==
  computeGroupBounds([i \in 1 .. Len(selection) |->
                        groupDrag.elementSnapshots[selection[i]]])

\* C9: in a group rotate session the pivot is the centre of the group
\* bounding box at pointer-down and does not move; after a pointer-move by
\* the angular delta D every member's centre is pivot + R(D) * (its start
\* centre - pivot) and its rotation is (start rotation + D) mod 360.
C9_GroupRotate ==
  groupRotation.isRotating =>
    \E b \in {SnapshotBounds} :
      /\ groupRotation.pivotX = b.centerX
      /\ groupRotation.pivotY = b.centerY
      /\ ev.op = "groupRotateMove" =>
           \A id \in SelectedIds :
             LET start == groupDrag.elementSnapshots[id]
                 dx == Sub(start.x0, b.centerX)
                 dy == Sub(start.y0, b.centerY)
                 c == Cos(ev.delta)
                 s == Sin(ev.delta)
             IN  /\ els[id].x0 = Add(b.centerX, Sub(Mul(c, dx), Mul(s, dy)))
                 /\ els[id].y0 = Add(b.centerY, Add(Mul(s, dx), Mul(c, dy)))
                 /\ els[id].rotate = Mod360(Add(start.rotate, ev.delta))

\* members at (100,100) and (200,100) with rotation 0, rotated by 90
\* degrees about (150,100), are at (150,50) and (150,150) with rotation 90
C9_Witness ==
  /\ ev.op = "groupRotateMove"
  /\ ev.delta = I(90)
  /\ groupRotation.pivotX = I(150) /\ groupRotation.pivotY = I(100)
  /\ groupDrag.elementSnapshots["a"].x0 = I(100)
  /\ groupDrag.elementSnapshots["a"].y0 = I(100)
  /\ groupDrag.elementSnapshots["a"].rotate = I(0)
  /\ groupDrag.elementSnapshots["b"].x0 = I(200)
  /\ groupDrag.elementSnapshots["b"].y0 = I(100)
  /\ groupDrag.elementSnapshots["b"].rotate = I(0)
  /\ ~els["b"].autoHeight
  /\ els["a"].x0 = I(150) /\ els["a"].y0 = I(50) /\ els["a"].rotate = I(90)
  /\ els["b"].x0 = I(150) /\ els["b"].y0 = I(150) /\ els["b"].rotate = I(90)

(***************************************************************************)
(* Snap engine (useDragElements.ts) and the drag of the v-drag directive   *)
(***************************************************************************)
SNAP_THRESHOLD == 8

\* the elements of the page in the order they were registered in
MountOrder == << "a", "b" >>

\* a registry that unregisterDragElement never takes an element out of
getDragElementsForPageStale ==
  LET registered(id) == id \in DOMAIN els /\ els[id].enabled
  IN  SelectSeq(MountOrder, registered)

getDragElementsForPage ==
  LET registered(id) ==
        id \in DOMAIN els /\ els[id].mounted /\ els[id].enabled
  IN  SelectSeq(MountOrder, registered)

\* the visible (cropped) centre and size of a registered element
getVisibleBounds(el) ==
  LET at(offX, offY, cos, sin) ==
        [cx |-> Sub(Add(el.x0, Mul(offX, cos)), Mul(offY, sin)),
         cy |-> Add(Add(el.y0, Mul(offX, sin)), Mul(offY, cos)),
         w |-> Div(Mul(el.width,
                       Sub(Sub(I(100), el.cropLeft), el.cropRight)), I(100)),
         h |-> Div(Mul(el.height,
                       Sub(Sub(I(100), el.cropTop), el.cropBottom)), I(100))]
  IN  at(Half(Mul(Div(Sub(el.cropLeft, el.cropRight), I(100)), el.width)),
         Half(Mul(Div(Sub(el.cropTop, el.cropBottom), I(100)), el.height)),
         Cos(el.rotate), Sin(el.rotate))

\* Set.add followed by Array.from: insertion order, no value twice
AddTarget(targets, v) ==
  IF \E i \in DOMAIN targets : targets[i] = v THEN targets
  ELSE Append(targets, v)

\* the loop of getSnapTargets over the elements of the page
RECURSIVE SiblingTargetsOf(_, _, _, _)
SiblingTargetsOf(es, ids, selfDragId, targets) ==
  IF ids = << >> THEN targets
  ELSE IF Head(ids) = selfDragId
         THEN SiblingTargetsOf(es, Tail(ids), selfDragId, targets)
  ELSE LET add(b) ==
             [x |-> AddTarget(AddTarget(AddTarget(targets.x,
                      Sub(b.cx, Half(b.w))), b.cx), Add(b.cx, Half(b.w))),
              y |-> AddTarget(AddTarget(AddTarget(targets.y,
                      Sub(b.cy, Half(b.h))), b.cy), Add(b.cy, Half(b.h)))]
       IN  SiblingTargetsOf(es, Tail(ids), selfDragId,
                            add(getVisibleBounds(es[Head(ids)])))

SiblingTargets(ids, selfDragId, targets) ==
  SiblingTargetsOf(els, ids, selfDragId, targets)

\* getSnapTargets over the geometry es of the elements of the page
getSnapTargetsOf(es, selfDragId) ==
  SiblingTargetsOf(es, getDragElementsForPage, selfDragId,
    [x |-> AddTarget(AddTarget(<< I(0) >>, Half(I(slideWidth))),
                     I(slideWidth)),
     y |-> AddTarget(AddTarget(<< I(0) >>, Half(I(slideHeight))),
                     I(slideHeight))])

getSnapTargets(selfDragId) == getSnapTargetsOf(els, selfDragId)

\* dist < SNAP_THRESHOLD && (!best || dist <= best.dist): a later target at
\* the same distance replaces the earlier one
betterOrEqual(dist, best) ==
  Lt(dist, I(SNAP_THRESHOLD)) /\ (best.isNull \/ Le(dist, best.dist))

\* !best || dist < best.dist: the threshold is not looked at
betterNoThreshold(dist, best) == best.isNull \/ Lt(dist, best.dist)

\* dist < SNAP_THRESHOLD && (!best || dist < best.dist)
better(dist, best) ==
  Lt(dist, I(SNAP_THRESHOLD)) /\ (best.isNull \/ Lt(dist, best.dist))

\* the loop of findSnap over the targets, best so far in hand
RECURSIVE findSnapBest(_, _, _, _)
findSnapBest(value, elementHalfSize, targets, best) ==
  IF targets = << >> THEN best
  ELSE LET t == Head(targets)
           try(b, dist, val) ==
             IF better(dist, b)
               THEN [isNull |-> FALSE, dist |-> dist, val |-> val, line |-> t]
               ELSE b
           leftEdge == Sub(value, elementHalfSize)
           rightEdge == Add(value, elementHalfSize)
       IN  findSnapBest(value, elementHalfSize, Tail(targets),
             try(try(try(best, MathAbs(Sub(value, t)), t),
                     MathAbs(Sub(leftEdge, t)), Add(t, elementHalfSize)),
                 MathAbs(Sub(rightEdge, t)), Sub(t, elementHalfSize)))

findSnap(value, elementHalfSize, targets) ==
  LET result(best) ==
        IF best.isNull THEN [value |-> value, lines |-> << >>]
        ELSE [value |-> best.val, lines |-> << best.line >>]
  IN  result(findSnapBest(value, elementHalfSize, targets, [isNull |-> TRUE]))

\* state.applySnap(x, y, metaKey) of the element el with id dragId: the
\* returned x and y, the guides it sets, and what it computed on the way
applySnapTo(el, x, y, metaKey, snapTargets) ==
  LET snap(visHalfW, visHalfH, offX, offY, cos, sin, targets) ==
        LET visCX == Sub(Add(x, Mul(offX, cos)), Mul(offY, sin))
            visCY == Add(Add(y, Mul(offX, sin)), Mul(offY, cos))
            back(snapX, snapY) ==
              [x |-> Add(Sub(snapX.value, Mul(offX, cos)), Mul(offY, sin)),
               y |-> Sub(Sub(snapY.value, Mul(offX, sin)), Mul(offY, cos)),
               lines |-> [x |-> snapX.lines, y |-> snapY.lines],
               visCX |-> visCX, visCY |-> visCY,
               visHalfW |-> visHalfW, visHalfH |-> visHalfH,
               targets |-> targets]
        IN  back(findSnap(visCX, visHalfW, targets.x),
                 findSnap(visCY, visHalfH, targets.y))
  IN  IF metaKey
        THEN [x |-> x, y |-> y, lines |-> [x |-> << >>, y |-> << >>]]
        ELSE snap(Div(Mul(el.width,
                          Sub(Sub(I(100), el.cropLeft), el.cropRight)), I(200)),
                  Div(Mul(el.height,
                          Sub(Sub(I(100), el.cropTop), el.cropBottom)), I(200)),
                  Half(Mul(Div(Sub(el.cropLeft, el.cropRight), I(100)),
                           el.width)),
                  Half(Mul(Div(Sub(el.cropTop, el.cropBottom), I(100)),
                           el.height)),
                  Cos(el.rotate), Sin(el.rotate), snapTargets)

applySnap(el, dragId, x, y, metaKey) ==
  applySnapTo(el, x, y, metaKey, getSnapTargets(dragId))

\* a selectElement() that adds the element and forgets to clear the set
selectElementNoClear(id) == Append(selection, id)

\* selectElement(state): the selection after clear() and add(state)
selectElement(id) == << id >>

\* pointer-down on the element itself, Shift not held: handlePointerdown of
\* the v-drag directive, on an element of a render context where dragging
\* is enabled (startDragging() selects)
dragPointerdown(id) ==
  /\ id \in DOMAIN els
  /\ els[id].mounted /\ els[id].enabled
  /\ ~pointerDrag.active /\ ~currentDrag.active /\ ~groupDrag.active
  /\ ~rotation.isRotating
  /\ budget.downs < MaxDowns
  /\ LET wasAlreadySelected == \E i \in DOMAIN selection : selection[i] = id
         \* state.startDragging(): updateBounds(), selectElement(state)
         started == IF wasAlreadySelected THEN els
                    ELSE [els EXCEPT ![id] = updateBounds(els[id])]
         \* Array.from(getSelectedElements())
         selected == IF wasAlreadySelected THEN selection
                     ELSE selectElement(id)
         ids == {selected[i] : i \in DOMAIN selected}
     IN  /\ els' = started
         /\ posStr' = PositionWatch(started)
         /\ selection' = selected
         /\ history' = [s \in DOMAIN history |->
                          IF s \in ids
                            THEN saveSnapshotStack(history[s], started[s])
                            ELSE history[s]]
         /\ redoStack' = [s \in DOMAIN redoStack |->
                            IF s \in ids THEN << >> ELSE redoStack[s]]
         /\ pointerDrag' =
              [active |-> TRUE, id |-> id,
               startPositions |-> [s \in ids |-> [x0 |-> started[s].x0,
                                                  y0 |-> started[s].y0]]]
         /\ gesture' = GestureOf("move", ids)
  /\ ev' = [op |-> "dragPointerdown", id |-> id, before |-> selection]
  /\ budget' = [budget EXCEPT !.downs = @ + 1]
  /\ script' = NoScript
  /\ UNCHANGED <<activeSnapLines, currentDrag, currentCropDrag, updater, env, rotation, groupDrag,
                 groupRotation>>

\* a handlePointermove that never disables the snapping
snapDisableNever(altKey, metaKey) == FALSE

\* the flag handlePointermove hands to applySnap: moveEv.metaKey
snapDisable(altKey, metaKey) == metaKey

\* a member of a dragged selection that follows the pointer only
dragMoveNoSnapOffset(el, startPos, single, dx, dy, rawX, rawY, snapped) ==
  IF single
    THEN [el EXCEPT !.x0 = snapped.x, !.y0 = snapped.y]
    ELSE [el EXCEPT !.x0 = Add(startPos.x0, dx),
                    !.y0 = Add(startPos.y0, dy)]

\* a selected element after handlePointermove: the one dragged element takes
\* the snapped point, the members of a multi-selection their start plus the
\* pointer travel plus the snap correction of the dragged element
\* a handlePointermove that adds the travel to the present position
dragMoveAccumulate(el, startPos, single, dx, dy, rawX, rawY, snapped) ==
  [el EXCEPT !.x0 = Add(el.x0, dx), !.y0 = Add(el.y0, dy)]

dragMoveResult(el, startPos, single, dx, dy, rawX, rawY, snapped) ==
  IF single
    THEN [el EXCEPT !.x0 = snapped.x, !.y0 = snapped.y]
    ELSE [el EXCEPT !.x0 = Add(Add(startPos.x0, dx), Sub(snapped.x, rawX)),
                    !.y0 = Add(Add(startPos.y0, dy), Sub(snapped.y, rawY))]

\* pointer-move of the drag, the pointer (dx, dy) slide units from where it
\* went down, with the Alt and Meta key state of the event:
\* handlePointermove
dragMove(dx, dy, altKey, metaKey) ==
  /\ pointerDrag.active
  /\ budget.moves < MaxMoves
  /\ LET id == pointerDrag.id
         start == pointerDrag.startPositions
     IN  \E rawX \in {Add(start[id].x0, dx)}, rawY \in {Add(start[id].y0, dy)} :
           \E snapped \in {applySnap(els[id], id, rawX, rawY,
                                     snapDisable(altKey, metaKey))} :
             /\ els' = [s \in DOMAIN els |->
                          IF s \notin DOMAIN start THEN els[s]
                          ELSE dragMoveResult(els[s], start[s],
                                              DOMAIN start = {id}, dx, dy,
                                              rawX, rawY, snapped)]
             /\ posStr' = PositionWatch(els')
             /\ activeSnapLines' =
                  [activeSnapLines EXCEPT ![id] = snapped.lines]
             /\ ev' = [op |-> "dragMove", id |-> id, x |-> rawX, y |-> rawY,
                       dx |-> dx, dy |-> dy, altKey |-> altKey,
                       metaKey |-> metaKey, snapped |-> snapped]
  /\ budget' = [budget EXCEPT !.moves = @ + 1]
  /\ script' = NoScript
  /\ UNCHANGED <<history, redoStack, selection, pointerDrag, currentDrag, currentCropDrag, updater, env,
                 rotation, groupDrag, groupRotation, gesture>>

\* a pointer-up of the drag that removes the listeners and forgets
\* clearSnapLines()
dragPointerupKeepLines ==
  /\ pointerDrag.active
  /\ pointerDrag' = NoSession
  /\ ev' = [op |-> "dragPointerup", id |-> pointerDrag.id,
            lines |-> activeSnapLines[pointerDrag.id]]
  /\ script' = NoScript
  /\ UNCHANGED <<els, history, redoStack, posStr, selection, activeSnapLines,
                 currentDrag, currentCropDrag, updater, env, rotation, groupDrag, groupRotation, budget,
                 gesture>>

\* pointer-up of the drag: handlePointerup
dragPointerup ==
  /\ pointerDrag.active
  /\ activeSnapLines' = [activeSnapLines EXCEPT
                           ![pointerDrag.id] = [x |-> << >>, y |-> << >>]]
  /\ pointerDrag' = NoSession
  /\ ev' = [op |-> "dragPointerup", id |-> pointerDrag.id,
            lines |-> activeSnapLines[pointerDrag.id]]
  /\ script' = NoScript
  /\ UNCHANGED <<els, history, redoStack, posStr, selection, currentDrag, currentCropDrag, updater, env,
                 rotation, groupDrag, groupRotation, budget, gesture>>

(***************************************************************************)
(* Snap specification: the drag of one of two elements of a slide, alone   *)
(* or with both selected                                                   *)
(***************************************************************************)
\* a box cropped by 20 % at the top and 10 % at the left
Cropped(x0, y0, w, h, r) ==
  Element(I(x0), I(y0), I(w), I(h), r, 100,
          <<I(20), I(0), I(0), I(10)>>, FALSE, FALSE, "frontmatter")

\* the dragged element "a" and its sibling "b"
SnapStarts ==
  { <<Box(300, 200, 100, 100, I(0)), Box(600, 400, 200, 60, I(0))>>,
    <<Box(300, 200, 200, 60, I(0)), Box(600, 400, 200, 60, I(0))>>,
    <<Cropped(290, 190, 200, 100, I(0)), Box(600, 400, 200, 60, I(0))>>,
    <<Cropped(310, 190, 200, 100, I(90)), Cropped(600, 400, 200, 100, I(0))>>,
    <<Arrow(300, 200, 100, -50), AutoBox(600, 400, 200)>> }

\* pointer travel of the drag moves
SnapDeltas == { <<190, 0>>, <<186, 80>>, <<300, 200>>, <<250, 76>>,
                <<50, 30>>, <<-110, -170>>, <<182, 0>> }

InitSnap ==
  /\ els \in {[id \in {"a", "b"} |-> IF id = "a" THEN g[1] ELSE g[2]] :
                g \in SnapStarts}
  /\ history = [id \in {"a", "b"} |-> << >>]
  /\ redoStack = [id \in {"a", "b"} |-> << >>]
  /\ posStr = [id \in {"a", "b"} |-> EncodePos(els[id])]
  /\ selection \in { << >>, << "a", "b" >> }
  /\ NoGestureInit

NextSnap ==
  \/ \E id \in {"a", "b"} : dragPointerdown(id)
  \/ \E d \in SnapDeltas, alt \in BOOLEAN, meta \in BOOLEAN :
       dragMove(I(d[1]), I(d[2]), alt, meta)
  \/ dragPointerup

SpecSnap == InitSnap /\ [][NextSnap]_vars

SnapApplied == ev.op = "dragMove" /\ ~ev.metaKey

IsTarget(targets, v) == \E i \in DOMAIN targets : targets[i] = v

\* the first target, in the order findSnap meets them, that the centre c or
\* one of the edges c - h and c + h lies on
FirstExact(targets, c, h) ==
  LET on(i) == targets[i] \in {c, Sub(c, h), Add(c, h)}
  IN  targets[CHOOSE i \in DOMAIN targets :
                on(i) /\ \A j \in 1 .. (i - 1) : ~on(j)]

\* the alignments findSnap evaluates for the centre c and half size h, in
\* the order it evaluates them: for each target in turn the centre, the
\* leading edge and the trailing edge; each with its distance and the centre
\* that puts the centre or edge on the target
Alignments(c, h, targets) ==
  [k \in 1 .. (3 * Len(targets)) |->
     LET t == targets[((k - 1) \div 3) + 1]
         part == (k - 1) % 3
     IN  IF part = 0
           THEN [dist |-> MathAbs(Sub(c, t)), centre |-> t, guide |-> t]
         ELSE IF part = 1
           THEN [dist |-> MathAbs(Sub(Sub(c, h), t)), centre |-> Add(t, h),
                 guide |-> t]
         ELSE [dist |-> MathAbs(Sub(Add(c, h), t)), centre |-> Sub(t, h),
               guide |-> t]]

\* what C35 says of one axis: r is the result for centre c, half size h
SnapsToNearest(r, c, h, targets) ==
  LET a == Alignments(c, h, targets)
      close == {k \in DOMAIN a : Lt(a[k].dist, I(SNAP_THRESHOLD))}
  IN  IF close = {}
        THEN r.value = c /\ r.lines = << >>
        ELSE LET first == CHOOSE k \in close :
                            \A j \in close :
                              /\ Le(a[k].dist, a[j].dist)
                              /\ (a[j].dist = a[k].dist => k <= j)
             IN  /\ r.value = a[first].centre
                 /\ r.lines = << a[first].guide >>
                 /\ r.lines[1] \in {r.value, Sub(r.value, h), Add(r.value, h)}
                 /\ Lt(MathAbs(Sub(r.value, c)), I(SNAP_THRESHOLD))
                 /\ MathAbs(Sub(r.value, c)) = a[first].dist

\* C35: on each axis independently findSnap snaps exactly when some
\* alignment (centre, leading or trailing edge against some target) is
\* closer than 8; it then takes an alignment of minimum distance (the first
\* evaluated among ties), returns the centre that puts that centre or edge
\* on the one guide it reports, less than 8 from the proposed centre;
\* otherwise it returns the proposed centre and no guide. The guides of the
\* last drag move are those findSnap reported.
C35_FindSnapNearest ==
  SnapApplied =>
    LET sn == ev.snapped
        rx == findSnap(sn.visCX, sn.visHalfW, sn.targets.x)
        ry == findSnap(sn.visCY, sn.visHalfH, sn.targets.y)
    IN  /\ SnapsToNearest(rx, sn.visCX, sn.visHalfW, sn.targets.x)
        /\ SnapsToNearest(ry, sn.visCY, sn.visHalfH, sn.targets.y)
        /\ activeSnapLines[ev.id] = [x |-> rx.lines, y |-> ry.lines]
        /\ sn.lines = [x |-> rx.lines, y |-> ry.lines]

\* a drag move that snapped on the x axis by a non-zero correction and
\* missed on the y axis
C35_Witness ==
  /\ SnapApplied
  /\ activeSnapLines[ev.id].x # << >>
  /\ activeSnapLines[ev.id].y = << >>
  /\ ev.snapped.x # ev.x
  /\ ev.snapped.y = ev.y

\* C6 (as stated): when the proposed visible centre lies exactly on a snap
\* target of an axis, applySnap returns the proposed centre unchanged on
\* that axis and the guide of that axis is that target.
C6_ExactTargetIsGuide ==
  SnapApplied =>
    /\ IsTarget(ev.snapped.targets.x, ev.snapped.visCX) =>
         /\ ev.snapped.x = ev.x
         /\ activeSnapLines[ev.id].x = << ev.snapped.visCX >>
    /\ IsTarget(ev.snapped.targets.y, ev.snapped.visCY) =>
         /\ ev.snapped.y = ev.y
         /\ activeSnapLines[ev.id].y = << ev.snapped.visCY >>

\* C6 (amended): when the proposed visible centre lies exactly on a snap
\* target of an axis, applySnap returns the proposed centre unchanged on
\* that axis and reports one guide on it: the first target in encounter
\* order that the visible centre or a visible edge lies on, which is the
\* centre's target when no target met before it lies on an edge.
C6_ExactTargetKept ==
  SnapApplied =>
    /\ IsTarget(ev.snapped.targets.x, ev.snapped.visCX) =>
         /\ ev.snapped.x = ev.x
         /\ activeSnapLines[ev.id].x =
              << FirstExact(ev.snapped.targets.x, ev.snapped.visCX,
                            ev.snapped.visHalfW) >>
    /\ IsTarget(ev.snapped.targets.y, ev.snapped.visCY) =>
         /\ ev.snapped.y = ev.y
         /\ activeSnapLines[ev.id].y =
              << FirstExact(ev.snapped.targets.y, ev.snapped.visCY,
                            ev.snapped.visHalfH) >>

\* a cropped element dragged so that its visible centre is on the slide's
\* centre line x = 490 and on no target of the y axis
C6_Witness ==
  /\ SnapApplied
  /\ hasCropOf(els[ev.id])
  /\ ev.snapped.visCX = Half(I(slideWidth))
  /\ ev.snapped.visCX # ev.x
  /\ IsTarget(ev.snapped.targets.x, ev.snapped.visCX)
  /\ activeSnapLines[ev.id].x = << ev.snapped.visCX >>
  /\ els[ev.id].x0 = ev.x
  /\ activeSnapLines[ev.id].y = << >>

(***************************************************************************)
(* Position decoding: useDragElement reads the numbers of the position     *)
(* (the array of a directive, or the string of a prop or of the            *)
(* frontmatter split at the commas and mapped through Number)              *)
(***************************************************************************)
\* pos[i] ?? d, with i counted from 0 as in the source
PosOr(pos, i, d) == IF i + 1 <= Len(pos) THEN pos[i + 1].v ELSE d

\* useDragElement that takes pos[0] and pos[1] for the centre
useDragElementAtCentre(pos, isArrow, dataSource) ==
  Element(PosOr(pos, 0, NaN), PosOr(pos, 1, NaN),
          PosOr(pos, 2, NaN), PosOr(pos, 3, I(0)),
          IF isArrow THEN I(0) ELSE PosOr(pos, 4, I(0)),
          PosOr(pos, 5, I(100)).n,
          << PosOr(pos, 6, I(0)), PosOr(pos, 7, I(0)),
             PosOr(pos, 8, I(0)), PosOr(pos, 9, I(0)) >>,
          isArrow, ~isArrow /\ ~IsFinite(PosOr(pos, 3, NaN)), dataSource)

\* the refs useDragElement creates from a position; the height of an
\* auto-height element is 0 until it is measured
useDragElement(pos, isArrow, dataSource) ==
  LET autoHeight == ~isArrow /\ ~IsFinite(PosOr(pos, 3, NaN))
      width == PosOr(pos, 2, NaN)
      x0 == Add(PosOr(pos, 0, NaN), Half(width))
      rotate == IF isArrow THEN I(0) ELSE PosOr(pos, 4, I(0))
      zIndex == PosOr(pos, 5, I(100)).n
      crop == << PosOr(pos, 6, I(0)), PosOr(pos, 7, I(0)),
                 PosOr(pos, 8, I(0)), PosOr(pos, 9, I(0)) >>
      configuredHeight == PosOr(pos, 3, I(0))
      height == IF autoHeight THEN I(0) ELSE configuredHeight
      configuredY0 == IF autoHeight THEN PosOr(pos, 1, NaN)
                      ELSE Add(PosOr(pos, 1, NaN), Half(PosOr(pos, 3, NaN)))
  IN  Element(x0, configuredY0, width, height, rotate, zIndex, crop,
              isArrow, autoHeight, dataSource)

\* the element is unmounted and mounted again (a reload of the slide): it
\* is created from the position the updater stored and measured
remount(id) ==
  /\ id \in DOMAIN els
  /\ ~pointerDrag.active /\ ~currentDrag.active /\ ~groupDrag.active
  /\ ~rotation.isRotating /\ ~groupRotation.isRotating
  /\ els' = [els EXCEPT ![id] =
               updateBounds(useDragElement(posStr[id], els[id].isArrow,
                                           els[id].dataSource))]
  /\ selection' = SelectSeq(selection, LAMBDA s : s # id)
  /\ activeSnapLines' = [activeSnapLines EXCEPT
                           ![id] = [x |-> << >>, y |-> << >>]]
  /\ ev' = [op |-> "remount", id |-> id, before |-> els[id],
            posStr |-> posStr[id]]
  /\ script' = NoScript
  /\ UNCHANGED <<history, redoStack, posStr, pointerDrag, currentDrag, currentCropDrag, updater, env,
                 rotation, groupDrag, groupRotation, budget, gesture>>

(***************************************************************************)
(* Codec specification: two selected elements, sessions on the handles of  *)
(* the group box, and reloads                                              *)
(***************************************************************************)
\* a cropped box above the default layer
Layered(x0, y0, w, h, z, crop) ==
  Element(I(x0), I(y0), I(w), I(h), I(0), z, crop, FALSE, FALSE,
          "frontmatter")

\* an auto-height element of a v-drag directive
AutoDirective(x0, y0, w) ==
  Element(I(x0), I(y0), I(w), Half(I(w)), I(0), 100, NoCrop, FALSE, TRUE,
          "directive")

CodecStarts ==
  { <<Box(100, 100, 40, 60, ThetaDeg), Arrow(200, 150, 60, -40)>>,
    <<Layered(100, 100, 40, 40, 100, <<I(20), I(0), I(0), I(10)>>),
      AutoBox(200, 100, 80)>>,
    <<Layered(100, 100, 41, 40, 101, NoCrop), AutoDirective(200, 100, 80)>> }

InitCodec ==
  /\ els \in {[id \in {"a", "b"} |-> IF id = "a" THEN g[1] ELSE g[2]] :
                g \in CodecStarts}
  /\ history = [id \in {"a", "b"} |-> << >>]
  /\ redoStack = [id \in {"a", "b"} |-> << >>]
  /\ posStr = [id \in {"a", "b"} |-> EncodePos(els[id])]
  /\ selection = << "a", "b" >>
  /\ NoGestureInit

NextCodec ==
  \/ NextGroup
  \/ \E id \in {"a", "b"} : remount(id)

SpecCodec == InitCodec /\ [][NextCodec]_vars

(***************************************************************************)
(* Claims on the position encoding                                         *)
(***************************************************************************)
\* the last step was a reload of an element from the position string the
\* encoder produced for the geometry it had
Reloaded == ev.op = "remount" /\ ev.posStr = EncodePos(ev.before)

\* left and top of an element: centre minus half the size
LeftOf(el) == Sub(el.x0, Half(el.width))

TopOf(el) == Sub(el.y0, Half(el.height))

\* left, top, width, zIndex and crop of the reloaded element are those of
\* the original, rounded; a fixed height is too
DecodedBoxRounded ==
  LET o == ev.before
      n == els[ev.id]
  IN  /\ LeftOf(n) = Round(LeftOf(o))
      /\ TopOf(n) = Round(TopOf(o))
      /\ n.width = Round(o.width)
      /\ ~o.autoHeight => n.height = Round(o.height)
      /\ n.zIndex = o.zIndex
      /\ n.cropTop = Round(o.cropTop) /\ n.cropRight = Round(o.cropRight)
      /\ n.cropBottom = Round(o.cropBottom) /\ n.cropLeft = Round(o.cropLeft)

\* an auto-height element is encoded with the sentinel and reloaded as an
\* auto-height element
DecodedAutoHeight ==
  LET o == ev.before
  IN  /\ els[ev.id].autoHeight = o.autoHeight
      /\ o.autoHeight =>
           ev.posStr[4].s = (IF o.dataSource = "directive" THEN "NaN" ELSE "_")

\* C7 (as stated): decoding the position string the encoder produced for a
\* geometry yields left, top, width, height, rotate, zIndex and crop equal
\* to the original up to integer rounding; an auto-height element is
\* encoded with the height sentinel and decodes to an auto-height element
\* with the same left, top and width.
C7_RoundTrip ==
  Reloaded =>
    /\ DecodedBoxRounded
    /\ DecodedAutoHeight
    /\ els[ev.id].rotate = Round(ev.before.rotate)

\* C7 (arrows set apart): the round trip holds for every field but the
\* rotation of an arrow, which is decoded as 0 whatever was encoded.
C7_RoundTripButArrowRotate ==
  Reloaded =>
    /\ DecodedBoxRounded
    /\ DecodedAutoHeight
    /\ els[ev.id].rotate =
         (IF ev.before.isArrow THEN I(0) ELSE Round(ev.before.rotate))

\* a cropped box that a group resize left with a width that is no integer,
\* reloaded
C7_Witness ==
  /\ Reloaded
  /\ hasCropOf(ev.before)
  /\ ev.before.width # Round(ev.before.width)
  /\ Len(ev.posStr) = 10
  /\ els[ev.id].width = Round(ev.before.width)

\* an auto-height element of a directive that a group resize made narrower,
\* reloaded from a string with the NaN sentinel
C7_AutoWitness ==
  /\ Reloaded
  /\ ev.before.autoHeight /\ ev.before.dataSource = "directive"
  /\ ev.before.width # I(80)
  /\ ev.posStr[4].s = "NaN"
  /\ els[ev.id].autoHeight


(***************************************************************************)
(* Gesture specification: two elements of a slide (two boxes, or a box and *)
(* an auto-height element), none, one or both of them selected; one        *)
(* pointer runs a gesture of any kind (a drag of the element, a corner or  *)
(* edge handle, the rotate handle, a handle of the group box); after the   *)
(* gesture the keyboard undoes and redoes                                  *)
(***************************************************************************)
GestureStarts ==
  { <<Box(300, 200, 100, 100, I(0)), Box(600, 400, 200, 60, I(0))>>,
    <<Box(100, 100, 40, 40, I(0)), AutoBox(200, 100, 80)>> }

GestureDeltas == { <<190, 0>>, <<50, 30>> }

GesturePointers == { <<250, 250>>, <<120, 130>> }

GestureOffsets == { <<50, 0>>, <<40, -30>> }

\* no pointer is down: neither the directive nor a control holds a session
Idle ==
  /\ ~pointerDrag.active /\ ~currentDrag.active /\ ~groupDrag.active
  /\ ~rotation.isRotating /\ ~groupRotation.isRotating

InitGesture ==
  /\ els \in {[id \in {"a", "b"} |-> IF id = "a" THEN g[1] ELSE g[2]] :
                g \in GestureStarts}
  /\ history = [id \in {"a", "b"} |-> << >>]
  /\ redoStack = [id \in {"a", "b"} |-> << >>]
  /\ posStr = [id \in {"a", "b"} |-> EncodePos(els[id])]
  /\ selection \in { << >>, << "b" >>, << "a", "b" >> }
  /\ NoGestureInit

NextGesture ==
  \/ \E id \in {"a", "b"} : Idle /\ dragPointerdown(id)
  \/ \E d \in GestureDeltas : dragMove(I(d[1]), I(d[2]), FALSE, FALSE)
  \/ dragPointerup
  \/ \E h \in {"rb", "r"} : Idle /\ onPointerdown(h)
  \/ \E p \in GesturePointers : cornerMove(I(p[1]), I(p[2]), FALSE)
  \/ \E p \in GesturePointers : borderMove(I(p[1]), I(p[2]), FALSE)
  \/ onPointerup
  \/ \E o \in GestureOffsets :
       /\ Idle
       /\ Len(selection) = 1
       /\ rotatePointerdown(Add(els[selection[1]].x0, I(o[1])),
                            Add(els[selection[1]].y0, I(o[2])))
  \/ \E o \in GestureOffsets :
       /\ rotation.isRotating
       /\ rotateMove(Add(rotation.pivotX, I(o[1])),
                     Add(rotation.pivotY, I(o[2])), FALSE)
  \/ rotatePointerup
  \/ Idle /\ groupPointerdown("rb")
  \/ \E p \in GesturePointers : groupResizeMove(I(p[1]), I(p[2]), FALSE)
  \/ groupPointerup
  \/ \E o \in GestureOffsets, b \in {bounds} :
       /\ Idle
       /\ groupRotatePointerdown(Add(b.centerX, I(o[1])),
                                 Add(b.centerY, I(o[2])))
  \/ \E o \in GestureOffsets :
       /\ groupRotation.isRotating
       /\ groupRotateMove(Add(groupRotation.pivotX, I(o[1])),
                          Add(groupRotation.pivotY, I(o[2])), FALSE)
  \/ groupRotatePointerup
  \/ \E id \in {"a", "b"} : Idle /\ budget.downs > 0 /\ undo(id)
  \/ \E id \in {"a", "b"} : Idle /\ budget.downs > 0 /\ redo(id)

SpecGesture == InitGesture /\ [][NextGesture]_vars

(***************************************************************************)
(* Claims on the snapshots of a gesture                                    *)
(***************************************************************************)
\* a step that is a pointer-down, and a step that is a pointer-move
PointerdownStep == budget'.downs = budget.downs + 1

PointermoveStep == budget'.moves = budget.moves + 1

\* the undo stack of id grew by the one snapshot of its geometry before the
\* step (the oldest entry leaves a full stack)
OneSnapshotPushed(id) ==
  history'[id] =
    Append(IF Len(history[id]) >= maxHistorySize
             THEN Tail(history[id]) ELSE history[id],
           HistorySnapshot(els[id]))

\* C11 as stated: at the pointer-down of a gesture of any kind (move, corner
\* or edge resize, rotate, group resize, group rotate) the undo stack of every
\* affected element grows by exactly one snapshot, the geometry the element
\* has before the gesture mutates it, the stacks of the other elements stay,
\* and no pointer-move pushes a snapshot.
C11_SnapshotAtPointerdown ==
  [][/\ PointerdownStep =>
          \A id \in DOMAIN els :
            IF id \in gesture'.ids
              THEN OneSnapshotPushed(id)
                     /\ HistorySnapshot(els'[id]) = HistorySnapshot(els[id])
              ELSE history'[id] = history[id]
     /\ PointermoveStep => history' = history]_vars

\* C11, the part that holds: the pointer-down of a move on the element and
\* of a resize or rotate on the group box pushes exactly one snapshot of the
\* geometry before the gesture per affected element; no pointer-move of any
\* gesture kind pushes a snapshot.
C11_SnapshotAtMoveAndGroupPointerdown ==
  [][/\ (PointerdownStep
           /\ gesture'.kind \in {"move", "groupResize", "groupRotate"}) =>
          \A id \in DOMAIN els :
            IF id \in gesture'.ids
              THEN OneSnapshotPushed(id)
                     /\ HistorySnapshot(els'[id]) = HistorySnapshot(els[id])
              ELSE history'[id] = history[id]
     /\ PointermoveStep => history' = history]_vars

\* a group resize moved both elements away from the one snapshot each got at
\* the pointer-down
C11_Witness ==
  /\ ev.op = "groupResizeMove"
  /\ gesture.kind = "groupResize"
  /\ gesture.ids = {"a", "b"}
  /\ \A id \in gesture.ids :
       /\ Len(history[id]) = 1
       /\ history[id][1] = gesture.start[id]
       /\ HistorySnapshot(els[id]) # gesture.start[id]


(***************************************************************************)
(* Claims on undo and redo after a gesture                                 *)
(***************************************************************************)
\* a step that is the undo, and a step that is the redo, of element id
UndoStep(id) == budget'.undos = budget.undos + 1 /\ ev'.id = id

RedoStep(id) == budget'.redos = budget.redos + 1 /\ ev'.id = id

\* the gesture is over, it affected id, and id has the geometry the gesture
\* left it with, which is not the geometry of the pointer-down
AfterGesture(id) ==
  /\ Idle
  /\ id \in gesture.ids
  /\ redoStack[id] = << >>
  /\ HistorySnapshot(els[id]) # gesture.start[id]

\* an undo of id gives it the geometry of the pointer-down and leaves the
\* geometry it had on top of the redo stack; a redo of id gives it the
\* geometry on top of the redo stack
UndoRestoresPointerdown(id) ==
  /\ (AfterGesture(id) /\ UndoStep(id)) =>
       /\ HistorySnapshot(els'[id]) = gesture.start[id]
       /\ Len(redoStack'[id]) = 1
       /\ redoStack'[id][1] = HistorySnapshot(els[id])
  /\ (Idle /\ id \in gesture.ids /\ Len(redoStack[id]) > 0 /\ RedoStep(id)) =>
       HistorySnapshot(els'[id]) = redoStack[id][Len(redoStack[id])]

\* C12 as stated: after a gesture of any kind changed the geometry of an
\* element, one undo of the element restores the geometry it had at the
\* pointer-down and puts the geometry the gesture left on top of the redo
\* stack, and one redo brings that geometry back.
C12_UndoRestoresPointerdown ==
  [][\A id \in DOMAIN els : UndoRestoresPointerdown(id)]_vars

\* C12, the part that holds: the same for the gestures that save a snapshot
\* (the move drag, the group resize and the group rotate) on the elements
\* of fixed height.
C12_UndoRestoresSnapshotGesture ==
  [][\A id \in DOMAIN els :
       (gesture.kind \in {"move", "groupResize", "groupRotate"}
          /\ ~els[id].autoHeight) => UndoRestoresPointerdown(id)]_vars

\* a group resize was undone and then redone on a box (the one undo and the
\* one redo of the run): the box has the geometry the resize left, the
\* geometry of the pointer-down is back on its undo stack
C12_Witness ==
  /\ ev.op = "redo"
  /\ budget.undos = 1 /\ budget.redos = 1
  /\ gesture.kind = "groupResize"
  /\ ev.id \in gesture.ids
  /\ ~els[ev.id].autoHeight
  /\ \A id \in gesture.ids :
       redoStack[id] = << >> /\ history[id] = << gesture.start[id] >>
  /\ HistorySnapshot(els[ev.id]) # gesture.start[ev.id]


\* C13: an undo of an element whose undo stack is empty, and a redo of an
\* element whose redo stack is empty, leave the geometry of every element,
\* the position strings, both stacks and the selection as they are.
C13_EmptyStackNoOp ==
  [][\A id \in DOMAIN els :
       ((UndoStep(id) /\ ev'.op = "undo" /\ history[id] = << >>)
          \/ (RedoStep(id) /\ ev'.op = "redo" /\ redoStack[id] = << >>)) =>
         /\ els' = els
         /\ posStr' = posStr
         /\ history' = history
         /\ redoStack' = redoStack
         /\ selection' = selection]_vars

\* the element was nudged, nothing was ever saved, and an undo followed a
\* redo: both found their stack empty
C13_Witness ==
  /\ ev.op = "undo"
  /\ budget.saves = 0 /\ budget.nudges > 0 /\ budget.redos > 0
  /\ \A id \in DOMAIN els : history[id] = << >> /\ redoStack[id] = << >>


(***************************************************************************)
(* Crop mode of the elements that leave the selection                      *)
(***************************************************************************)
\* the elements whose crop mode is active
CroppingIds == {id \in DOMAIN els : els[id].isCropping}

\* a stopDragging() that leaves the crop mode alone
stopDraggingKeepCrop(el) == el

\* state.stopDragging() on the element itself: isCropping.value = false,
\* nothing where dragging is not enabled
stopDraggingCrop(el) ==
  IF el.enabled THEN [el EXCEPT !.isCropping = FALSE] ELSE el

\* clearSelection() on the elements: state.exitCropMode() for every selected
\* element whose crop mode is active
clearSelectionCrop(es, sel) ==
  [id \in DOMAIN es |->
     IF (\E i \in DOMAIN sel : sel[i] = id) /\ es[id].isCropping
       THEN [es[id] EXCEPT !.savedCropValues = [saved |-> FALSE],
                           !.isCropping = FALSE]
       ELSE es[id]]

(***************************************************************************)
(* Window focus (useDragElements.ts, watch(useWindowFocus()))              *)
(***************************************************************************)
\* the window loses focus: the watcher of every mounted element calls its
\* stopDragging(), which (where dragging is enabled) leaves crop mode and
\* removes the element from the selection; the listeners of a drag in
\* progress stay on the document
windowBlur ==
  /\ els' = [id \in DOMAIN els |->
               IF els[id].mounted THEN stopDraggingCrop(els[id])
               ELSE els[id]]
  /\ selection' = SelectSeq(selection,
                            LAMBDA s : ~(els[s].mounted /\ els[s].enabled))
  /\ gesture' = [gesture EXCEPT !.blurred = TRUE]
  /\ ev' = [op |-> "windowBlur", dragging |-> pointerDrag.active,
            before |-> selection, cropping |-> CroppingIds]
  /\ script' = NoScript
  /\ UNCHANGED <<history, redoStack, posStr, activeSnapLines,
                 pointerDrag, currentDrag, currentCropDrag, updater, env, rotation, groupDrag,
                 groupRotation, budget>>

\* a pointer-move reaches the document while no drag is in progress: the
\* directive has no pointermove listener on the document (it adds one at
\* pointer-down and removes it at pointer-up), so nothing runs
idlePointermove ==
  /\ ~pointerDrag.active
  /\ budget.moves < MaxMoves
  /\ budget' = [budget EXCEPT !.moves = @ + 1]
  /\ ev' = [op |-> "idlePointermove"]
  /\ script' = NoScript
  /\ UNCHANGED <<els, history, redoStack, posStr, gestureVars>>

(***************************************************************************)
(* Focus specification: the drag of one of two elements of a slide, with   *)
(* pointer-moves before and after it and with the window losing focus at   *)
(* any moment                                                              *)
(***************************************************************************)
NextFocus ==
  \/ NextSnap
  \/ windowBlur
  \/ idlePointermove

SpecFocus == InitSnap /\ [][NextFocus]_vars

NoLines == [x |-> << >>, y |-> << >>]

\* C14 as stated: when the window loses focus during the drag of an element
\* the snap guide lines of the element are cleared and the drag is over: no
\* pointer-move changes the geometry of any element before the next
\* pointer-down.
C14_BlurEndsDrag ==
  [][/\ (ev'.op = "windowBlur" /\ pointerDrag.active) =>
          activeSnapLines'[pointerDrag.id] = NoLines
     /\ (PointermoveStep /\ gesture.blurred) =>
          \A id \in DOMAIN els :
            HistorySnapshot(els'[id]) = HistorySnapshot(els[id])]_vars


(***************************************************************************)
(* Two pointers (touch): a second pointer goes down on a handle of the     *)
(* control while the first still holds one                                 *)
(***************************************************************************)
\* onPointerdown of DragControl.vue for a second pointer: the handler tests
\* ev.buttons only, so it runs as for the first and assigns currentDrag
onPointerdownSecond(handle) ==
  /\ \E id \in SingleSelected :
       /\ ControlShown(id)
       /\ handle \in CornerHandles(els[id]) \cup BorderHandles(els[id])
       /\ currentDrag.active
       /\ currentDrag.handle # "rotate"
       /\ budget.downs < MaxDowns + 1
       /\ currentDrag' = DragSession(els[id], handle)
       /\ gesture' = GestureOf("resize", {id})
       /\ ev' = [op |-> "onPointerdown", id |-> id, handle |-> handle]
  /\ budget' = [budget EXCEPT !.downs = @ + 1]
  /\ script' = script
  /\ UNCHANGED <<els, history, redoStack, posStr, selection,
                 activeSnapLines, pointerDrag,
                 rotation, groupDrag, groupRotation, currentCropDrag, updater, env>>

\* Two-pointer specification: the resize specification with a second
\* pointer
NextTwoPointers ==
  \/ NextResize
  \/ \E h \in {"lt", "rb", "r"} : onPointerdownSecond(h)

SpecTwoPointers == InitResize /\ [][NextTwoPointers]_vars

\* C15 as stated: a pointer-down that arrives while a session of the control
\* is active is ignored: the session with its start snapshot, the geometry
\* and the undo stacks stay as they are.
C15_PointerdownIgnoredWhileActive ==
  [][(currentDrag.active /\ PointerdownStep) =>
       /\ currentDrag' = currentDrag
       /\ els' = els
       /\ history' = history]_vars


\* C16: the pointer-up that ends the drag of an element leaves the element
\* without snap guide lines on either axis, whatever lines the drag had set,
\* and a pointer-move that arrives while no drag is in progress changes the
\* position of no element.
C16_PointerupClearsGuides ==
  [][/\ (pointerDrag.active /\ ~pointerDrag'.active) =>
          activeSnapLines'[pointerDrag.id] = NoLines
     /\ (~pointerDrag.active /\ PointermoveStep) =>
          \A id \in DOMAIN els :
            els'[id].x0 = els[id].x0 /\ els'[id].y0 = els[id].y0]_vars

\* a pointer-up ended a drag that had a guide line active
C16_Witness ==
  /\ ev.op = "dragPointerup"
  /\ ev.lines # NoLines
  /\ activeSnapLines[ev.id] = NoLines
  /\ ~pointerDrag.active


(***************************************************************************)
(* Claims on the modifier of the move                                      *)
(***************************************************************************)
\* the pointer-move of the step left the dragged element without guide lines
\* and every dragged element at its start position plus the pointer travel
UnsnappedMove ==
  /\ activeSnapLines'[ev'.id] = NoLines
  /\ \A s \in DOMAIN pointerDrag.startPositions :
       /\ els'[s].x0 = Add(pointerDrag.startPositions[s].x0, ev'.dx)
       /\ els'[s].y0 = Add(pointerDrag.startPositions[s].y0, ev'.dy)

\* C17 as stated: a pointer-move of a drag with the Alt key held sets no snap
\* guide line on either axis and commits start position plus pointer travel,
\* wherever the element is.
C17_AltDisablesSnap ==
  [][(PointermoveStep /\ ev'.op = "dragMove" /\ ev'.altKey)
       => UnsnappedMove]_vars

\* C17 with the key the handler samples: a pointer-move of a drag with the
\* Meta key held sets no snap guide line on either axis and commits start
\* position plus pointer travel, wherever the element is.
C17_MetaDisablesSnap ==
  [][(PointermoveStep /\ ev'.op = "dragMove" /\ ev'.metaKey)
       => UnsnappedMove]_vars

\* a move with the Meta key held ended where the same move without it would
\* have snapped and drawn a guide
C17_Witness ==
  /\ ev.op = "dragMove"
  /\ ev.metaKey
  /\ activeSnapLines[ev.id] = NoLines
  /\ els[ev.id].x0 = ev.x /\ els[ev.id].y0 = ev.y
  /\ \E free \in {applySnap(els[ev.id], ev.id, ev.x, ev.y, FALSE)} :
       free.lines # NoLines /\ (free.x # ev.x \/ free.y # ev.y)


(***************************************************************************)
(* Selection (useMultiSelect.ts) and the handlers that change it           *)
(***************************************************************************)
\* addToSelection(state): Set.add keeps the insertion order, no value twice
addToSelection(sel, id) ==
  IF \E i \in DOMAIN sel : sel[i] = id THEN sel ELSE Append(sel, id)

\* removeFromSelection(state)
removeFromSelection(sel, id) == SelectSeq(sel, LAMBDA s : s # id)

\* a clearSelection() that drops one element only
clearSelectionOne == Tail(selection)

\* clearSelection()
clearSelection == << >>

\* a stopDragging() that leaves the selection alone
stopDraggingKeepSelected(sel, id) == sel

\* state.stopDragging(): nothing where dragging is not enabled
stopDragging(sel, id) ==
  IF els[id].enabled THEN removeFromSelection(sel, id) ELSE sel

\* pointer-down of the primary button on a mounted element with Shift held:
\* the handler toggles the element in the selection and returns; it does
\* not look at enabled
shiftPointerdown(id) ==
  /\ id \in DOMAIN els
  /\ els[id].mounted
  /\ selection' = IF id \in SelectedIds
                    THEN removeFromSelection(selection, id)
                    ELSE addToSelection(selection, id)
  /\ ev' = [op |-> "shiftPointerdown", id |-> id, before |-> selection]
  /\ script' = NoScript
  /\ UNCHANGED <<els, history, redoStack, posStr, activeSnapLines,
                 pointerDrag, currentDrag, currentCropDrag, updater, env, rotation, groupDrag,
                 groupRotation, budget, gesture>>

\* a pointer-down that reaches the document, its target outside every
\* draggable element ("outside": the slide background, "control": inside
\* the container of the drag control or of the group drag control):
\* handleDocumentPointerdown of every mounted element runs, and the one of a
\* selected element clears the selection
documentPointerdown(target, shiftKey) ==
  /\ target \in {"outside", "control"}
  /\ selection' =
       IF /\ \E id \in SelectedIds : els[id].mounted
          /\ ~shiftKey
          /\ target = "outside"
         THEN clearSelection ELSE selection
  /\ els' =
       IF /\ \E id \in SelectedIds : els[id].mounted
          /\ ~shiftKey
          /\ target = "outside"
         THEN clearSelectionCrop(els, selection) ELSE els
  /\ ev' = [op |-> "documentPointerdown", target |-> target,
            shiftKey |-> shiftKey, before |-> selection,
            cropping |-> CroppingIds]
  /\ script' = NoScript
  /\ UNCHANGED <<history, redoStack, posStr, activeSnapLines,
                 pointerDrag, currentDrag, currentCropDrag, updater, env, rotation, groupDrag,
                 groupRotation, budget, gesture>>

\* the node of a mounted element unmounts: unmounted() of the directive
\* calls state.unmounted(), which (where dragging is enabled) takes the
\* element out of the registry of its page and calls stopDragging(), and
\* stops the element's watchers and its document listener
unmount(id) ==
  /\ id \in DOMAIN els
  /\ els[id].mounted
  /\ Idle
  /\ els' = [els EXCEPT
               ![id] = [stopDraggingCrop(@) EXCEPT !.mounted = FALSE]]
  /\ selection' = stopDragging(selection, id)
  /\ ev' = [op |-> "unmount", id |-> id, before |-> selection,
            cropping |-> CroppingIds]
  /\ script' = NoScript
  /\ UNCHANGED <<history, redoStack, posStr, activeSnapLines,
                 pointerDrag, currentDrag, currentCropDrag, updater, env, rotation, groupDrag,
                 groupRotation, budget, gesture>>

(***************************************************************************)
(* Selection specification: two elements of the slide shown and a third,   *)
(* "p", mounted in a render context where dragging is not enabled (the     *)
(* preview of the next slide in presenter mode, or print mode); elements   *)
(* are pressed with and without Shift, one is dragged, the background is   *)
(* pressed, elements unmount and the window loses focus                    *)
(***************************************************************************)
Disabled(el) == [el EXCEPT !.enabled = FALSE]

InitSelect ==
  /\ els = [id \in {"a", "b", "p"} |->
              IF id = "a" THEN Box(300, 200, 100, 100, I(0))
              ELSE IF id = "b" THEN Box(600, 400, 200, 60, I(0))
              ELSE Disabled(Box(300, 200, 100, 100, I(0)))]
  /\ history = [id \in {"a", "b", "p"} |-> << >>]
  /\ redoStack = [id \in {"a", "b", "p"} |-> << >>]
  /\ posStr = [id \in {"a", "b", "p"} |-> EncodePos(els[id])]
  /\ selection \in { << >>, << "a" >>, << "a", "b" >> }
  /\ NoGestureInit

NextSelect ==
  \/ \E id \in {"a", "b"} : Idle /\ dragPointerdown(id)
  \/ dragMove(I(50), I(30), FALSE, FALSE)
  \/ dragPointerup
  \/ \E id \in {"a", "b", "p"} : shiftPointerdown(id)
  \/ \E target \in {"outside", "control"}, k \in BOOLEAN :
       documentPointerdown(target, k)
  \/ \E id \in {"a", "b", "p"} : unmount(id)
  \/ windowBlur

SpecSelect == InitSelect /\ [][NextSelect]_vars

C19_ClickOutsideClears ==
  [][(ev'.op = "documentPointerdown" /\ ev'.target = "outside"
        /\ ~ev'.shiftKey /\ selection # << >>) => selection' = << >>]_vars

\* C19 for a selection that holds a mounted element: the pointer-down on
\* the background leaves the selection empty.
C19_ClickOutsideClearsMounted ==
  [][(ev'.op = "documentPointerdown" /\ ev'.target = "outside"
        /\ ~ev'.shiftKey /\ \E id \in SelectedIds : els[id].mounted)
       => selection' = << >>]_vars

\* two elements were selected when the background was pressed
C19_Witness ==
  /\ ev.op = "documentPointerdown"
  /\ ev.target = "outside" /\ ~ev.shiftKey
  /\ Len(ev.before) = 2
  /\ selection = << >>

\* C20 as stated: the selection holds mounted elements only.
C20_SelectionMounted ==
  \A i \in DOMAIN selection : els[selection[i]].mounted

\* C20 for the elements of a render context where dragging is enabled: a
\* selected one of them is mounted.
C20_EnabledSelectionMounted ==
  \A i \in DOMAIN selection :
    els[selection[i]].enabled => els[selection[i]].mounted

\* a selected element of the slide unmounted and left the selection, the
\* other selected element stayed
C20_Witness ==
  /\ ev.op = "unmount"
  /\ els[ev.id].enabled
  /\ ev.id \in {ev.before[i] : i \in DOMAIN ev.before}
  /\ ev.id \notin SelectedIds
  /\ selection # << >>


(***************************************************************************)
(* Crop mode: enterCropMode / exitCropMode / cancelCropMode of the element *)
(* state and the eight crop handles of DragControl.vue                     *)
(***************************************************************************)
\* a clamp without its lower end
clampNoLower(n, min, max) == Min(max, n)

\* clamp(n, min, max) of @antfu/utils: Math.min(max, Math.max(min, n))
clamp(n, min, max) == Min(max, Max(min, n))

\* the crop values crop mode was entered with, as the events since carry
\* them on
CropOf(el) ==
  [top |-> el.cropTop, right |-> el.cropRight, bottom |-> el.cropBottom,
   left |-> el.cropLeft]

EntryOf(e) == IF "entry" \in DOMAIN e THEN e.entry ELSE [known |-> FALSE]

enterCropModeResult(el) ==
  IF ~el.enabled \/ el.isArrow THEN el
  ELSE [el EXCEPT !.savedCropValues =
                     [saved |-> TRUE, top |-> el.cropTop,
                      right |-> el.cropRight, bottom |-> el.cropBottom,
                      left |-> el.cropLeft],
                  !.isCropping = TRUE]

exitCropModeResult(el) ==
  [el EXCEPT !.savedCropValues = [saved |-> FALSE], !.isCropping = FALSE]

\* a cancel that leaves crop mode and keeps the dragged values
cancelCropModeKeep(el) == exitCropModeResult(el)

cancelCropModeResult(el) ==
  LET s == el.savedCropValues
      restored == IF s.saved
                    THEN [el EXCEPT !.cropTop = s.top, !.cropRight = s.right,
                                    !.cropBottom = s.bottom,
                                    !.cropLeft = s.left]
                    ELSE el
  IN  exitCropModeResult(restored)

CropHandles ==
  {"top", "right", "bottom", "left",
   "topLeft", "topRight", "bottomLeft", "bottomRight"}

\* the session a pointer-down on a crop handle starts; the pointer position
\* is kept as the travel from this point
CropSession(el, handle) ==
  [active |-> TRUE, handle |-> handle,
   startCropTop |-> el.cropTop, startCropRight |-> el.cropRight,
   startCropBottom |-> el.cropBottom, startCropLeft |-> el.cropLeft]

\* a crop move that drives the top field whatever the handle is
cropMoveTopAlways(el, d, px, py) ==
  [el EXCEPT !.cropTop =
     clamp(Add(d.startCropTop, Mul(Div(py, el.height), I(100))), I(0),
           Sub(Sub(I(100), el.cropBottom), I(10)))]

\* onPointermove of a crop handle after a pointer travel of (px, py): the
\* four assignments in the order of the code
cropMoveResult(el, d, px, py) ==
  LET dx == Mul(Div(px, el.width), I(100))
      dy == Mul(Div(py, el.height), I(100))
      h == d.handle
      e1 == IF h \in {"top", "topLeft", "topRight"}
              THEN [el EXCEPT !.cropTop =
                      clamp(Add(d.startCropTop, dy), I(0),
                            Sub(Sub(I(100), el.cropBottom), I(10)))]
              ELSE el
      e2 == IF h \in {"bottom", "bottomLeft", "bottomRight"}
              THEN [e1 EXCEPT !.cropBottom =
                      clamp(Sub(d.startCropBottom, dy), I(0),
                            Sub(Sub(I(100), e1.cropTop), I(10)))]
              ELSE e1
      e3 == IF h \in {"left", "topLeft", "bottomLeft"}
              THEN [e2 EXCEPT !.cropLeft =
                      clamp(Add(d.startCropLeft, dx), I(0),
                            Sub(Sub(I(100), e2.cropRight), I(10)))]
              ELSE e2
  IN  IF h \in {"right", "topRight", "bottomRight"}
        THEN [e3 EXCEPT !.cropRight =
                clamp(Sub(d.startCropRight, dx), I(0),
                      Sub(Sub(I(100), e3.cropLeft), I(10)))]
        ELSE e3

MaxCropDowns == 1

MaxCropMoves == 2

MaxCropUndo == 1

\* double-click on the element (v-drag handleDblclick)
enterCropMode(id) ==
  /\ id \in DOMAIN els
  /\ els[id].mounted
  /\ ~els[id].isCropping
  /\ els' = [els EXCEPT ![id] = enterCropModeResult(@)]
  /\ ev' = [op |-> "enterCropMode", id |-> id,
            entry |-> IF enterCropModeResult(els[id]).isCropping
                        THEN [known |-> TRUE, crop |-> CropOf(els[id])]
                        ELSE [known |-> FALSE]]
  /\ UNCHANGED <<history, redoStack, posStr, gestureVars, budget, script>>

\* Enter, the Done button or a double-click on the crop overlay; the
\* handles leave the page, currentCropDrag is left as it is
exitCropMode ==
  /\ \E id \in SingleSelected :
       /\ ControlShown(id)
       /\ els[id].isCropping
       /\ els' = [els EXCEPT ![id] = exitCropModeResult(@)]
       /\ ev' = [op |-> "exitCropMode", id |-> id, entry |-> EntryOf(ev),
                 dragged |-> CropOf(els[id])]
  /\ UNCHANGED <<history, redoStack, posStr, gestureVars, budget, script>>

\* Escape while cropping
cancelCropMode ==
  /\ \E id \in SingleSelected :
       /\ ControlShown(id)
       /\ els[id].isCropping
       /\ LET new == [els EXCEPT ![id] = cancelCropModeResult(@)]
          IN  /\ els' = new
              /\ posStr' = PositionWatch(new)
       /\ ev' = [op |-> "cancelCropMode", id |-> id, entry |-> EntryOf(ev),
                 dragged |-> CropOf(els[id])]
  /\ script' = ScriptAfterChange
  /\ UNCHANGED <<history, redoStack, gestureVars, budget>>

\* pointer-down on a crop handle: a new session, whatever the last one was
cropPointerdown(handle) ==
  /\ \E id \in SingleSelected :
       /\ ControlShown(id)
       /\ els[id].isCropping
       /\ budget.downs < MaxCropDowns
       /\ currentCropDrag' = CropSession(els[id], handle)
       /\ gesture' = GestureOf("crop", {id})
       /\ ev' = [op |-> "cropPointerdown", id |-> id, handle |-> handle,
                 entry |-> EntryOf(ev)]
  /\ budget' = [budget EXCEPT !.downs = @ + 1, !.moves = 0]
  /\ UNCHANGED <<els, history, redoStack, posStr, selection,
                 activeSnapLines, pointerDrag, currentDrag, rotation,
                 groupDrag, groupRotation, script, updater, env>>

\* pointer-move on the crop handle that holds the capture
cropPointermove(px, py) ==
  /\ \E id \in SingleSelected :
       /\ ControlShown(id)
       /\ els[id].isCropping
       /\ currentCropDrag.active
       /\ budget.moves < MaxCropMoves
       /\ LET new == WidthWatch([els EXCEPT ![id] =
                        cropMoveResult(@, currentCropDrag, px, py)])
          IN  /\ els' = new
              /\ posStr' = PositionWatch(new)
       /\ ev' = [op |-> "cropPointermove", id |-> id,
                 handle |-> currentCropDrag.handle, px |-> px, py |-> py,
                 entry |-> EntryOf(ev)]
  /\ budget' = [budget EXCEPT !.moves = @ + 1]
  /\ script' = ScriptAfterChange
  /\ UNCHANGED <<history, redoStack, gestureVars>>

\* pointer-up on the crop handle
cropPointerup ==
  /\ currentCropDrag.active
  /\ currentCropDrag' = NoCropDrag
  /\ ev' = [op |-> "cropPointerup", entry |-> EntryOf(ev)]
  /\ UNCHANGED <<els, history, redoStack, posStr, selection,
                 activeSnapLines, pointerDrag, currentDrag, rotation,
                 groupDrag, groupRotation, gesture, budget, script, updater, env>>


(***************************************************************************)
(* Crop specification: one selected element (an image, uncropped, cropped  *)
(* or with the crop of a hand-written position, or an arrow), crop mode,   *)
(* sessions on the crop handles, undo, redo and reloads                    *)
(***************************************************************************)
\* an image of 200 x 200 with the given crop percentages
CropImage(top, right, bottom, left) ==
  Layered(300, 200, 200, 200, 100, <<top, right, bottom, left>>)

\* the starts: no crop; a crop; a crop as a drag of the top handle by 91
\* leaves it (45.5); the crop of a hand-written position (95 from the
\* bottom); an arrow
CropStarts ==
  { CropImage(I(0), I(0), I(0), I(0)), CropImage(I(10), I(0), I(20), I(30)),
    CropImage(Q(91, 2), I(0), I(0), I(0)),
    CropImage(I(0), I(0), I(95), I(0)), Arrow(300, 200, 100, -50) }

\* pointer travel of the crop moves, in slide units
CropDeltas == { <<91, 91>>, <<-300, -300>>, <<-10, 300>> }

\* the undo stack of a start: empty, or the snapshot an earlier move of the
\* element pushed when its crop was another one
CropHistories(el) ==
  { << >>,
    << HistorySnapshot([el EXCEPT !.x0 = I(280), !.cropTop = I(5),
                                  !.cropLeft = I(40)]) >> }

InitCrop ==
  /\ els \in {[id \in {"a"} |-> g] : g \in CropStarts}
  /\ history \in {[id \in {"a"} |-> h] : h \in CropHistories(els["a"])}
  /\ redoStack = [id \in {"a"} |-> << >>]
  /\ posStr = [id \in {"a"} |-> EncodePos(els[id])]
  /\ selection = << "a" >>
  /\ NoGestureInit

NextCrop ==
  \/ enterCropMode("a")
  \/ exitCropMode
  \/ cancelCropMode
  \/ \E handle \in CropHandles : cropPointerdown(handle)
  \/ \E d \in CropDeltas : cropPointermove(I(d[1]), I(d[2]))
  \/ cropPointerup
  \/ budget.undos < MaxCropUndo /\ undo("a")
  \/ budget.redos < MaxCropUndo /\ redo("a")
  \/ remount("a")

SpecCrop == InitCrop /\ [][NextCrop]_vars

(***************************************************************************)
(* Claims on the crop                                                      *)
(***************************************************************************)
CropFields == {"cropTop", "cropRight", "cropBottom", "cropLeft"}

OppositeField(f) ==
  CASE f = "cropTop" -> "cropBottom"
    [] f = "cropBottom" -> "cropTop"
    [] f = "cropLeft" -> "cropRight"
    [] f = "cropRight" -> "cropLeft"

\* the fields a crop handle drives
DrivenFields(handle) ==
  (IF handle \in {"top", "topLeft", "topRight"} THEN {"cropTop"} ELSE {})
  \cup (IF handle \in {"bottom", "bottomLeft", "bottomRight"}
          THEN {"cropBottom"} ELSE {})
  \cup (IF handle \in {"left", "topLeft", "bottomLeft"}
          THEN {"cropLeft"} ELSE {})
  \cup (IF handle \in {"right", "topRight", "bottomRight"}
          THEN {"cropRight"} ELSE {})

CropInRange(el) ==
  /\ \A f \in CropFields : Le(I(0), el[f]) /\ Le(el[f], I(100))
  /\ Le(Add(el.cropTop, el.cropBottom), I(90))
  /\ Le(Add(el.cropLeft, el.cropRight), I(90))

\* every field the last crop move drove is within [0, 100 - opposite - 10]
DrivenWithinBounds(e, elements) ==
  e.op = "cropPointermove" =>
    \A f \in DrivenFields(e.handle) :
      /\ Le(I(0), elements[e.id][f])
      /\ Le(elements[e.id][f],
            Sub(Sub(I(100), elements[e.id][OppositeField(f)]), I(10)))

\* C21 as stated: in every reachable state the four crop values are in
\* [0, 100], top + bottom and left + right are at most 90, and a crop move
\* leaves each field it drives within [0, 100 - opposite - 10]
C21_CropInRange ==
  /\ \A id \in DOMAIN els : CropInRange(els[id])
  /\ DrivenWithinBounds(ev, els)

\* C21, what the code keeps: a crop that is in range stays in range under
\* crop moves, cancel, commit, undo and redo when the crops of its undo and
\* redo stacks are in range, and such a crop move leaves each field it
\* drives within [0, 100 - opposite - 10]; a reload is no such step
C21_CropRangeKept ==
  [][(/\ ev'.op # "remount"
      /\ \A id \in DOMAIN els :
           /\ CropInRange(els[id])
           /\ els[id].savedCropValues.saved =>
                CropInRange([els[id] EXCEPT
                               !.cropTop = els[id].savedCropValues.top,
                               !.cropRight = els[id].savedCropValues.right,
                               !.cropBottom = els[id].savedCropValues.bottom,
                               !.cropLeft = els[id].savedCropValues.left])
           /\ \A i \in DOMAIN history[id] : CropInRange(history[id][i])
           /\ \A i \in DOMAIN redoStack[id] : CropInRange(redoStack[id][i]))
       => /\ \A id \in DOMAIN els : CropInRange(els'[id])
          /\ DrivenWithinBounds(ev', els')]_vars

\* a crop move from a crop in range stopped at the upper end of its range
C21_Witness ==
  /\ ev.op = "cropPointermove"
  /\ ev.handle = "topLeft"
  /\ gesture.kind = "crop"
  /\ CropInRange(gesture.start[ev.id])
  /\ gesture.start[ev.id].cropBottom # I(0)
  /\ els[ev.id].cropTop = Sub(Sub(I(100), els[ev.id].cropBottom), I(10))
  /\ els[ev.id].cropLeft # gesture.start[ev.id].cropLeft


\* the refs of an element that are no crop value
Frame(el) ==
  [x0 |-> el.x0, y0 |-> el.y0, width |-> el.width, height |-> el.height,
   rotate |-> el.rotate, zIndex |-> el.zIndex]

\* C22: a pointer-move on a crop handle leaves centre, width, height,
\* rotation and zIndex as they were and changes no crop field but the one
\* an edge handle drives or the two adjacent ones a corner handle drives
C22_CropMoveFrame ==
  [][ev'.op = "cropPointermove" =>
       /\ Frame(els'[ev'.id]) = Frame(els[ev'.id])
       /\ \A f \in CropFields \ DrivenFields(ev'.handle) :
            els'[ev'.id][f] = els[ev'.id][f]
       /\ Cardinality(DrivenFields(ev'.handle)) =
            IF ev'.handle \in {"top", "right", "bottom", "left"} THEN 1 ELSE 2
       /\ \A id \in DOMAIN els \ {ev'.id} : els'[id] = els[id]]_vars

\* a move on the bottom-left corner handle changed both of its fields, by
\* amounts that differ
C22_Witness ==
  /\ ev.op = "cropPointermove"
  /\ ev.handle = "bottomLeft"
  /\ gesture.kind = "crop"
  /\ els[ev.id].cropBottom # gesture.start[ev.id].cropBottom
  /\ els[ev.id].cropLeft # gesture.start[ev.id].cropLeft
  /\ Sub(els[ev.id].cropBottom, gesture.start[ev.id].cropBottom)
       # Sub(els[ev.id].cropLeft, gesture.start[ev.id].cropLeft)
  /\ els[ev.id].cropTop = gesture.start[ev.id].cropTop
  /\ Frame(els[ev.id]) = Frame(gesture.start[ev.id])


\* C23: after crop mode was entered and nothing but crop-handle events
\* followed, a cancel leaves the four crop values as they were at the entry
\* and a commit leaves them as they were dragged; both leave crop mode
C23_CancelRestoresCommitKeeps ==
  /\ (ev.op = "cancelCropMode" /\ ev.entry.known) =>
       /\ CropOf(els[ev.id]) = ev.entry.crop
       /\ ~els[ev.id].isCropping
  /\ (ev.op = "exitCropMode" /\ ev.entry.known) =>
       /\ CropOf(els[ev.id]) = ev.dragged
       /\ ~els[ev.id].isCropping

\* a cancel after drags that had changed the crop
C23_Witness ==
  /\ ev.op = "cancelCropMode"
  /\ ev.entry.known
  /\ ev.dragged # ev.entry.crop
  /\ ev.dragged.bottom # ev.entry.crop.bottom
  /\ CropOf(els[ev.id]) = ev.entry.crop


(***************************************************************************)
(* Layer specification: one selected element whose rotation, z-index and   *)
(* crop are at their defaults or not, moved through the layers by the      *)
(* z-order functions; every change is encoded                              *)
(***************************************************************************)
LayerRotations == { I(0), Q(3, 10), Q(-3, 10), I(30) }

LayerZIndexes == { 100, 101, 2 }

LayerCrops == { NoCrop, <<Q(3, 10), I(0), I(0), I(0)>>,
                <<I(10), I(0), I(20), I(0)>> }

InitLayer ==
  /\ els \in {[id \in {"a"} |->
                 Element(I(300), I(200), I(100), I(60), r, z, crop,
                         FALSE, autoHeight, "frontmatter")] :
                r \in LayerRotations, z \in LayerZIndexes,
                crop \in LayerCrops, autoHeight \in BOOLEAN}
  /\ history = [id \in {"a"} |-> << >>]
  /\ redoStack = [id \in {"a"} |-> << >>]
  /\ posStr = [id \in {"a"} |-> EncodePos(els[id])]
  /\ selection = << "a" >>
  /\ NoGestureInit

NextLayer ==
  \/ bringForward
  \/ sendBackward
  \/ bringToFront
  \/ sendToBack

SpecLayer == InitLayer /\ [][NextLayer]_vars

(***************************************************************************)
(* Claims on the fields of the position string and on the z-order          *)
(***************************************************************************)
\* the field structure of a position string: fields after the fourth are
\* there exactly when the tests say so
FieldStructure(str, rotateField, zIndexField, cropFields) ==
  /\ Len(str) = 4 + (IF rotateField THEN 1 ELSE 0)
                  + (IF zIndexField THEN 1 ELSE 0)
                  + (IF cropFields THEN 4 ELSE 0)
  /\ Len(str) \in {4, 5, 6, 10}

TurnStarts ==
  { <<Box(150, 150, 200, 100, I(0)), Box(400, 300, 100, 60, I(90))>>,
    <<CroppedBox(ThetaDeg), Box(400, 300, 100, 60, I(0))>> }

InitTurn ==
  /\ els \in {[id \in {"a", "b"} |-> IF id = "a" THEN g[1] ELSE g[2]] :
                g \in TurnStarts}
  /\ history = [id \in {"a", "b"} |-> << >>]
  /\ redoStack = [id \in {"a", "b"} |-> << >>]
  /\ posStr = [id \in {"a", "b"} |-> EncodePos(els[id])]
  /\ selection \in { << "a" >>, << "a", "b" >> }
  /\ NoGestureInit

NextTurn ==
  \/ NextRotate
  \/ \E o \in RotateOffsets, b \in {bounds} :
       groupRotatePointerdown(Add(b.centerX, I(o[1])), Add(b.centerY, I(o[2])))
  \/ \E o \in RotateOffsets, k \in BOOLEAN :
       /\ groupRotation.isRotating
       /\ groupRotateMove(Add(groupRotation.pivotX, I(o[1])),
                          Add(groupRotation.pivotY, I(o[2])), k)
  \/ groupRotatePointerup

SpecTurn == InitTurn /\ [][NextTurn]_vars

(***************************************************************************)
(* Claims on the committed rotation                                        *)
(***************************************************************************)
\* the elements the last rotate pointer-move wrote to
Turned ==
  IF ev.op = "rotateMove" THEN {ev.id}
  ELSE IF ev.op = "groupRotateMove" THEN SelectedIds
  ELSE {}

\* C26 as stated: after every pointer-move of a rotate gesture, on the
\* element or on the group box, with or without Shift, the rotation r of
\* every element it wrote to satisfies 0 <= r < 360
C26_RotationBelow360 ==
  \A id \in Turned : Le(I(0), els[id].rotate) /\ Lt(els[id].rotate, I(360))

\* C26, what the code keeps: 0 <= r < 360 after every rotate pointer-move
\* on the group box and after every one on the element without Shift; with
\* Shift on the element r is a multiple of 15 with 0 <= r <= 360
C26_RotationBelow360UnlessSnapped ==
  \A id \in Turned :
    /\ Le(I(0), els[id].rotate)
    /\ IF ev.op = "rotateMove" /\ ev.shiftKey
         THEN /\ Le(els[id].rotate, I(360))
              /\ Snap15(els[id].rotate) = els[id].rotate
         ELSE Lt(els[id].rotate, I(360))

\* a rotate pointer-move on the group box turned a member backwards past 0
C26_Witness ==
  /\ ev.op = "groupRotateMove"
  /\ Lt(ev.delta, I(0))
  /\ \E id \in SelectedIds :
       /\ Lt(Add(groupDrag.elementSnapshots[id].rotate, ev.delta), I(0))
       /\ Lt(I(270), els[id].rotate) /\ Lt(els[id].rotate, I(360))

(***************************************************************************)
(* Group bounds specification: two elements of which none, one or both are *)
(* selected; elements are pressed with Shift, the background is pressed,   *)
(* and the group box is resized and rotated                                *)
(***************************************************************************)
InitBounds ==
  /\ els \in {[id \in {"a", "b"} |-> IF id = "a" THEN g[1] ELSE g[2]] :
                g \in GroupStarts}
  /\ history = [id \in {"a", "b"} |-> << >>]
  /\ redoStack = [id \in {"a", "b"} |-> << >>]
  /\ posStr = [id \in {"a", "b"} |-> EncodePos(els[id])]
  /\ selection \in { << >>, << "a" >>, << "a", "b" >> }
  /\ NoGestureInit

NextBounds ==
  \/ NextGroup
  \/ \E id \in {"a", "b"} : Idle /\ shiftPointerdown(id)
  \/ Idle /\ documentPointerdown("outside", FALSE)

SpecBounds == InitBounds /\ [][NextBounds]_vars

(***************************************************************************)
(* Claims on the group bounding box                                        *)
(***************************************************************************)
\* the world positions of the four corners of every selected element
SelectedCorners ==
  { WorldPoint(els[id], Mul(I(sx), Half(els[id].width)),
               Mul(I(sy), Half(els[id].height))) :
      id \in SelectedIds, sx \in {-1, 1}, sy \in {-1, 1} }

\* the box is the tightest axis-aligned box around the selected corners
TightBox(b) ==
  /\ \A c \in SelectedCorners :
       /\ Le(b.minX, c.x) /\ Le(c.x, b.maxX)
       /\ Le(b.minY, c.y) /\ Le(c.y, b.maxY)
  /\ \E c \in SelectedCorners : c.x = b.minX
  /\ \E c \in SelectedCorners : c.x = b.maxX
  /\ \E c \in SelectedCorners : c.y = b.minY
  /\ \E c \in SelectedCorners : c.y = b.maxY
  /\ b.width = Sub(b.maxX, b.minX)
  /\ b.height = Sub(b.maxY, b.minY)
  /\ b.centerX = Half(Add(b.minX, b.maxX))
  /\ b.centerY = Half(Add(b.minY, b.maxY))

\* C34: for a non-empty selection computeGroupBounds returns the tightest
\* axis-aligned box containing the four rotated corners of every element
\* (every corner inside, each bound attained by a corner, width and height
\* the extents, the centre the midpoint); for an empty selection it returns
\* null, and no pointer-down of the group control starts a session.
C34_GroupBoundsTight ==
  /\ [] (IF Len(selection) = 0
           THEN computeGroupBounds(selectedElements).isNull
           ELSE /\ ~computeGroupBounds(selectedElements).isNull
                /\ TightBox(computeGroupBounds(selectedElements)))
  /\ [][ Len(selection) = 0
           => /\ ev'.op \notin {"groupPointerdown", "groupRotatePointerdown"}
              /\ groupDrag' = groupDrag
              /\ groupRotation' = groupRotation ]_vars
  /\ [][ ev'.op = "groupPointerdown"
           => /\ TightBox(groupDrag'.groupBounds
                            @@ [centerX |-> groupDrag'.groupCenterX,
                                centerY |-> groupDrag'.groupCenterY])
              /\ groupDrag'.groupBounds.minX
                   = computeGroupBounds(selectedElements).minX ]_vars

\* a group pointer-down took the box of two selected elements one of which
\* is rotated by an angle that is no multiple of 90
C34_Witness ==
  /\ ev.op = "groupPointerdown"
  /\ Len(selection) = 2
  /\ \E id \in SelectedIds :
       LET q == Div(els[id].rotate, I(90)) IN q.d # 1
  /\ groupDrag.groupBounds.width = Sub(groupDrag.groupBounds.maxX,
                                       groupDrag.groupBounds.minX)

(***************************************************************************)
(* Registry specification: the elements "a" (a box) and "b" (a cropped     *)
(* box) of a slide and "p", a copy of "a" mounted in a render context      *)
(* where dragging is not enabled; elements unmount and mount again, and    *)
(* one is dragged                                                          *)
(***************************************************************************)
\* the node of an unmounted element is mounted again: useDragElement creates
\* its refs from the stored position and mounted() measures and registers
\* it (where dragging is enabled)
mount(id) ==
  /\ id \in DOMAIN els
  /\ ~els[id].mounted
  /\ Idle
  /\ els' = [els EXCEPT ![id] =
               LET created == useDragElement(posStr[id], els[id].isArrow,
                                             els[id].dataSource)
               IN  IF els[id].enabled THEN updateBounds(created)
                   ELSE [created EXCEPT !.enabled = FALSE]]
  /\ ev' = [op |-> "mount", id |-> id]
  /\ script' = NoScript
  /\ UNCHANGED <<history, redoStack, posStr, selection, activeSnapLines,
                 pointerDrag, currentDrag, currentCropDrag, updater, env, rotation,
                 groupDrag, groupRotation, budget, gesture>>

RegistryDeltas == { <<186, 80>>, <<50, 30>> }

InitRegistry ==
  /\ els = [id \in {"a", "b", "p"} |->
              IF id = "a" THEN Box(300, 200, 100, 100, I(0))
              ELSE IF id = "b" THEN Cropped(600, 400, 200, 100, I(0))
              ELSE Disabled(Box(300, 200, 100, 100, I(0)))]
  /\ history = [id \in {"a", "b", "p"} |-> << >>]
  /\ redoStack = [id \in {"a", "b", "p"} |-> << >>]
  /\ posStr = [id \in {"a", "b", "p"} |-> EncodePos(els[id])]
  /\ selection = << >>
  /\ NoGestureInit

NextRegistry ==
  \/ \E id \in {"a", "b", "p"} : unmount(id)
  \/ \E id \in {"a", "b", "p"} : mount(id)
  \/ \E id \in {"a", "b"} : Idle /\ dragPointerdown(id)
  \/ \E d \in RegistryDeltas : dragMove(I(d[1]), I(d[2]), FALSE, FALSE)
  \/ dragPointerup

SpecRegistry == InitRegistry /\ [][NextRegistry]_vars

\* the elements of the page that are mounted where dragging is enabled
MountedOnPage == {id \in DOMAIN els : els[id].mounted /\ els[id].enabled}

\* the visible left edge, centre line and right edge of an unrotated element
VisibleXs(el) ==
  LET left == Add(Sub(el.x0, Half(el.width)),
                  Div(Mul(el.cropLeft, el.width), I(100)))
      right == Sub(Add(el.x0, Half(el.width)),
                   Div(Mul(el.cropRight, el.width), I(100)))
  IN  {left, Half(Add(left, right)), right}

\* its visible top edge, centre line and bottom edge
VisibleYs(el) ==
  LET top == Add(Sub(el.y0, Half(el.height)),
                 Div(Mul(el.cropTop, el.height), I(100)))
      bottom == Sub(Add(el.y0, Half(el.height)),
                    Div(Mul(el.cropBottom, el.height), I(100)))
  IN  {top, Half(Add(top, bottom)), bottom}

SeqToSet(q) == {q[i] : i \in DOMAIN q}

\* the targets the claim gives element e
ExpectedTargets(e) ==
  [x |-> {I(0), Half(I(slideWidth)), I(slideWidth)}
           \cup UNION {VisibleXs(els[s]) : s \in MountedOnPage \ {e}},
   y |-> {I(0), Half(I(slideHeight)), I(slideHeight)}
           \cup UNION {VisibleYs(els[s]) : s \in MountedOnPage \ {e}}]

NoPatch == [isNull |-> TRUE]

\* a save() that finds the patch and does not send it
saveSkip(u) == u

\* save(), as far as its await: update({...newPatch, skipHmr: true}) is
\* called when there is a patch
saveCall(u) ==
  IF u.newPatch.isNull THEN u
  ELSE [u EXCEPT !.inFlight = Append(@, u.newPatch.dragPos)]

\* save() after its await: the server holds the patch that was sent, and
\* newPatch = null
saveResume(u) ==
  [u EXCEPT !.saved = Head(u.inFlight), !.inFlight = Tail(@),
            !.newPatch = NoPatch]

\* the updater called with (id, posStr, 'frontmatter')
updaterCall(u, id, str) ==
  IF u.dragPos[id] = str THEN u
  ELSE LET dragPos == [u.dragPos EXCEPT ![id] = str]
       IN  [u EXCEPT !.dragPos = dragPos,
                     !.newPatch = [isNull |-> FALSE, dragPos |-> dragPos],
                     !.timer = TRUE,
                     !.raced = @ \/ Len(u.inFlight) > 0]

\* bound of the position changes of an updater run
MaxCalls == 3

\* a ref of the element changes (here x0, by dx) and the watch hands the new
\* position string to the updater
positionChange(id, dx) ==
  /\ id \in DOMAIN els
  /\ updater.active
  /\ budget.nudges < MaxCalls
  /\ LET new == [els EXCEPT ![id].x0 = Add(@, dx)]
     IN  /\ els' = new
         /\ posStr' = PositionWatch(new)
         /\ updater' = IF PositionWatch(new)[id] = posStr[id] THEN updater
                       ELSE updaterCall(updater, id, PositionWatch(new)[id])
  /\ ev' = [op |-> "positionChange", id |-> id, dx |-> dx]
  /\ budget' = [budget EXCEPT !.nudges = @ + 1]
  /\ UNCHANGED <<history, redoStack, selection, activeSnapLines, pointerDrag,
                 currentDrag, currentCropDrag, rotation, groupDrag,
                 groupRotation, script, gesture, env>>

\* the debounce timer runs out: save() runs as far as its await
debounceFire ==
  /\ updater.active
  /\ updater.timer
  /\ updater' = [saveCall(updater) EXCEPT !.timer = FALSE]
  /\ ev' = [op |-> "debounceFire", sent |-> ~updater.newPatch.isNull]
  /\ UNCHANGED <<els, history, redoStack, posStr, selection, activeSnapLines,
                 pointerDrag, currentDrag, currentCropDrag, rotation,
                 groupDrag, groupRotation, budget, script, gesture, env>>

\* the oldest update() in flight resolves and its save() resumes
updateDone ==
  /\ updater.active
  /\ Len(updater.inFlight) > 0
  /\ updater' = saveResume(updater)
  /\ ev' = [op |-> "updateDone", pending |-> ~updater.newPatch.isNull,
            timer |-> updater.timer]
  /\ UNCHANGED <<els, history, redoStack, posStr, selection, activeSnapLines,
                 pointerDrag, currentDrag, currentCropDrag, rotation,
                 groupDrag, groupRotation, budget, script, gesture, env>>

(***************************************************************************)
(* Updater specification: two elements of a page whose positions live in   *)
(* the frontmatter; positions change, the debounce runs out and update()   *)
(* calls resolve. The timer and the server are fair: a timer that is set   *)
(* runs out, an update() in flight resolves.                               *)
(***************************************************************************)
UpdaterDeltas == { I(10), I(-20), Q(1, 4) }

InitUpdater ==
  /\ els = [id \in {"a", "b"} |->
              IF id = "a" THEN Box(300, 200, 100, 100, I(0))
              ELSE Box(600, 400, 200, 60, I(0))]
  /\ history = [id \in {"a", "b"} |-> << >>]
  /\ redoStack = [id \in {"a", "b"} |-> << >>]
  /\ posStr = [id \in {"a", "b"} |-> EncodePos(els[id])]
  /\ selection = << >>
  /\ activeSnapLines = [id \in DOMAIN els |-> [x |-> << >>, y |-> << >>]]
  /\ pointerDrag = NoSession
  /\ currentDrag = NoSession
  /\ rotation = [isRotating |-> FALSE]
  /\ groupDrag = NoSession
  /\ groupRotation = [isRotating |-> FALSE]
  /\ ev = [op |-> "init"]
  /\ budget = [saves |-> 0, nudges |-> 0, undos |-> 0, redos |-> 0,
               downs |-> 0, moves |-> 0]
  /\ script = NoScript
  /\ gesture = NoGesture
  /\ currentCropDrag = NoCropDrag
  /\ updater = [active |-> TRUE, dragPos |-> posStr, newPatch |-> NoPatch,
                timer |-> FALSE, inFlight |-> << >>, saved |-> posStr,
                raced |-> FALSE]
  /\ env = NoEnv

NextUpdater ==
  \/ \E id \in {"a", "b"}, dx \in UpdaterDeltas : positionChange(id, dx)
  \/ debounceFire
  \/ updateDone

SpecUpdater == InitUpdater /\ [][NextUpdater]_vars

SpecUpdaterFair ==
  SpecUpdater /\ WF_vars(debounceFire) /\ WF_vars(updateDone)

\* C37: every position string handed to the updater is eventually
\* persisted: once the positions stop changing, the server comes to hold
\* the position strings last handed over, also when one was handed over
\* while the update() of an earlier save was in flight.
C37_EventuallyPersisted == <>[](updater.saved = posStr)

\* C37 without the overlap: in a run in which the updater was never called
\* while an update() was in flight, the server comes to hold the position
\* strings last handed over
C37_PersistedUnlessRaced == <>[](updater.raced \/ updater.saved = posStr)

\* an update() resolved in a run without overlap and the server holds a
\* position that is not the one the page was loaded with
C37_Witness ==
  /\ ev.op = "updateDone"
  /\ ~updater.raced
  /\ updater.saved = posStr
  /\ updater.saved # [id \in {"a", "b"} |->
                        EncodePos(IF id = "a"
                                    THEN Box(300, 200, 100, 100, I(0))
                                    ELSE Box(600, 400, 200, 60, I(0)))]

(***************************************************************************)
(* Crop mode and selection: an image and a box of the slide shown; the     *)
(* image is double-clicked into crop mode, crop mode is left with Enter or *)
(* Escape, elements are pressed with and without Shift, the background is  *)
(* pressed, Escape deselects, elements unmount and the window loses focus  *)
(***************************************************************************)
\* Escape while the control of the selected element is shown and the
\* element is not in crop mode: props.data.stopDragging()
escapeDeselect ==
  /\ \E id \in SingleSelected :
       /\ ControlShown(id)
       /\ ~els[id].isCropping
       /\ els' = [els EXCEPT ![id] = stopDraggingCrop(@)]
       /\ selection' = stopDragging(selection, id)
       /\ ev' = [op |-> "escape", id |-> id, before |-> selection,
                 cropping |-> CroppingIds]
  /\ script' = NoScript
  /\ UNCHANGED <<history, redoStack, posStr, activeSnapLines, pointerDrag,
                 currentDrag, currentCropDrag, updater, env, rotation, groupDrag,
                 groupRotation, budget, gesture>>

InitCropSelect ==
  /\ els = [id \in {"a", "b"} |->
              IF id = "a" THEN CropImage(I(10), I(0), I(20), I(30))
              ELSE Box(600, 400, 200, 60, I(0))]
  /\ history = [id \in {"a", "b"} |-> << >>]
  /\ redoStack = [id \in {"a", "b"} |-> << >>]
  /\ posStr = [id \in {"a", "b"} |-> EncodePos(els[id])]
  /\ selection \in { << >>, << "a" >>, << "b" >> }
  /\ NoGestureInit

\* the double-click that enters crop mode follows the pointer-downs that
\* selected the element
NextCropSelect ==
  \/ \E id \in {"a", "b"} : Idle /\ dragPointerdown(id)
  \/ dragMove(I(50), I(30), FALSE, FALSE)
  \/ dragPointerup
  \/ \E id \in {"a", "b"} : Idle /\ id \in SelectedIds /\ enterCropMode(id)
  \/ exitCropMode
  \/ cancelCropMode
  \/ escapeDeselect
  \/ \E id \in {"a", "b"} : Idle /\ shiftPointerdown(id)
  \/ \E target \in {"outside", "control"}, k \in BOOLEAN :
       Idle /\ documentPointerdown(target, k)
  \/ \E id \in {"a", "b"} : unmount(id)
  \/ \E id \in {"a", "b"} : mount(id)
  \/ windowBlur

SpecCropSelect == InitCropSelect /\ [][NextCropSelect]_vars

\* C38: an element whose crop mode is active is a member of the selection,
\* in every reachable state
C38_CroppingIsSelected ==
  \A id \in DOMAIN els : els[id].isCropping => id \in SelectedIds

\* C38 for the operations that end crop mode: an element that a click
\* outside, Escape, a loss of focus or its unmount takes out of the
\* selection is not in crop mode afterwards
C38_RemovalEndsCrop ==
  [][ev'.op \in {"documentPointerdown", "escape", "windowBlur", "unmount"}
       => \A id \in DOMAIN els :
            (/\ \E i \in DOMAIN selection : selection[i] = id
             /\ ~\E i \in DOMAIN selection' : selection'[i] = id)
              => ~els'[id].isCropping]_vars

\* the element in crop mode was selected, and a click outside or a loss of
\* focus took it out of the selection and ended its crop mode
C38_Witness ==
  /\ ev.op \in {"documentPointerdown", "windowBlur"}
  /\ \E id \in ev.cropping :
       /\ \E i \in DOMAIN ev.before : ev.before[i] = id
       /\ id \notin SelectedIds
       /\ ~els[id].isCropping

(***************************************************************************)
(* Pointer-move specification: every session of the drag control, the      *)
(* group drag control, the crop handles and the directive, on an image     *)
(* with a crop or a box next to a box or a text of automatic height; each  *)
(* session sees up to two pointer-moves                                    *)
(***************************************************************************)
PathStarts ==
  { <<CropImage(I(10), I(0), I(20), I(30)), Box(600, 400, 200, 60, I(0))>>,
    <<Box(100, 100, 40, 40, I(0)), AutoBox(200, 100, 80)>> }

PathDeltas == { <<50, 30>>, <<146, 0>> }

InitPath ==
  /\ els \in {[id \in {"a", "b"} |-> IF id = "a" THEN g[1] ELSE g[2]] :
                g \in PathStarts}
  /\ history = [id \in {"a", "b"} |-> << >>]
  /\ redoStack = [id \in {"a", "b"} |-> << >>]
  /\ posStr = [id \in {"a", "b"} |-> EncodePos(els[id])]
  /\ selection \in { << >>, << "a" >>, << "b" >>, << "a", "b" >> }
  /\ NoGestureInit

NextPath ==
  \/ \E id \in {"a", "b"} : Idle /\ dragPointerdown(id)
  \/ \E d \in PathDeltas : dragMove(I(d[1]), I(d[2]), FALSE, FALSE)
  \/ dragPointerup
  \/ \E h \in {"rb", "r"} : Idle /\ onPointerdown(h)
  \/ \E p \in GesturePointers : cornerMove(I(p[1]), I(p[2]), FALSE)
  \/ \E p \in GesturePointers : borderMove(I(p[1]), I(p[2]), FALSE)
  \/ onPointerup
  \/ \E o \in GestureOffsets :
       /\ Idle
       /\ Len(selection) = 1
       /\ rotatePointerdown(Add(els[selection[1]].x0, I(o[1])),
                            Add(els[selection[1]].y0, I(o[2])))
  \/ \E o \in GestureOffsets :
       /\ rotation.isRotating
       /\ rotateMove(Add(rotation.pivotX, I(o[1])),
                     Add(rotation.pivotY, I(o[2])), FALSE)
  \/ rotatePointerup
  \/ Idle /\ groupPointerdown("rb")
  \/ \E p \in GesturePointers : groupResizeMove(I(p[1]), I(p[2]), FALSE)
  \/ groupPointerup
  \/ \E o \in GestureOffsets, b \in {bounds} :
       /\ Idle
       /\ groupRotatePointerdown(Add(b.centerX, I(o[1])),
                                 Add(b.centerY, I(o[2])))
  \/ \E o \in GestureOffsets :
       /\ groupRotation.isRotating
       /\ groupRotateMove(Add(groupRotation.pivotX, I(o[1])),
                          Add(groupRotation.pivotY, I(o[2])), FALSE)
  \/ groupRotatePointerup
  \/ Idle /\ budget.downs = 0 /\ enterCropMode("a")
  \/ \E handle \in {"topLeft", "right"} : cropPointerdown(handle)
  \/ \E d \in CropDeltas : cropPointermove(I(d[1]), I(d[2]))
  \/ cropPointerup

SpecPath == InitPath /\ [][NextPath]_vars

\* the pointer-move handlers
MoveOps == {"dragMove", "cornerMove", "borderMove", "rotateMove",
            "cropPointermove", "groupResizeMove", "groupRotateMove"}

\* the geometry of element id of the session at its pointer-down
StartEl(id) ==
  IF gesture.kind = "move"
    THEN [els[id] EXCEPT !.x0 = pointerDrag.startPositions[id].x0,
                         !.y0 = pointerDrag.startPositions[id].y0]
    ELSE LET s == gesture.start[id]
         IN  [els[id] EXCEPT !.x0 = s.x0, !.y0 = s.y0, !.width = s.width,
                             !.height = s.height, !.rotate = s.rotate,
                             !.cropTop = s.cropTop, !.cropRight = s.cropRight,
                             !.cropBottom = s.cropBottom,
                             !.cropLeft = s.cropLeft]

\* the elements of the page with those of the session at their pointer-down
\* geometry
StartEls ==
  [id \in DOMAIN els |-> IF id \in gesture.ids THEN StartEl(id) ELSE els[id]]

\* what the pointer-move e of the session commits when it is the first
\* pointer-move after the pointer-down
FirstMove(e) ==
  LET S == StartEls
  IN  CASE e.op = "dragMove" ->
             LET start == pointerDrag.startPositions
                 snapped == applySnapTo(S[e.id], e.x, e.y,
                                        snapDisable(e.altKey, e.metaKey),
                                        getSnapTargetsOf(S, e.id))
             IN  [s \in DOMAIN S |->
                    IF s \notin DOMAIN start THEN S[s]
                    ELSE dragMoveResult(S[s], start[s], DOMAIN start = {e.id},
                                        e.dx, e.dy, e.x, e.y, snapped)]
        [] e.op = "cornerMove" ->
             WidthWatchOf(S, [S EXCEPT ![e.id] =
               cornerMoveResult(@, currentDrag, currentDrag.handle,
                                e.x, e.y, e.shiftKey)])
        [] e.op = "borderMove" ->
             WidthWatchOf(S, [S EXCEPT ![e.id] =
               borderMoveResult(@, currentDrag, currentDrag.handle,
                                e.x, e.y)])
        [] e.op = "rotateMove" ->
             [S EXCEPT ![e.id] =
                rotateMoveResult(@, rotation, e.x, e.y, e.shiftKey)]
        [] e.op = "cropPointermove" ->
             WidthWatchOf(S, [S EXCEPT ![e.id] =
               cropMoveResult(@, currentCropDrag, e.px, e.py)])
        [] e.op = "groupResizeMove" ->
             LET b == groupResizeBox(groupDrag, e.x, e.y, e.shiftKey)
             IN  WidthWatchOf(S,
                   [id \in DOMAIN S |->
                      IF id \in SelectedIds
                        THEN groupResizeMember(S[id],
                               groupDrag.elementSnapshots[id],
                               groupDrag.elementOffsets[id], b)
                        ELSE S[id]])
        [] e.op = "groupRotateMove" ->
             WidthWatchOf(S,
               [id \in DOMAIN S |->
                  IF id \in SelectedIds
                    THEN groupRotateMember(S[id],
                           groupDrag.elementSnapshots[id],
                           groupDrag.elementOffsets[id],
                           groupRotation, e.delta)
                    ELSE S[id]])

\* C39: the geometry a pointer-move of a session commits is the geometry
\* it commits as the first pointer-move of the session: it depends on the
\* geometry at pointer-down, the elements outside the session and the
\* event, not on the earlier pointer-moves
C39_PathIndependent ==
  [][ev'.op \in MoveOps => els' = FirstMove(ev')]_vars

\* C39 where it holds: the pointer-move of a session on elements of fixed
\* height that is no move of a group commits what it commits as the first
\* pointer-move of the session
C39_PathIndependentFixedHeight ==
  [][(/\ ev'.op \in MoveOps
      /\ \A id \in gesture.ids : ~els[id].autoHeight
      /\ ev'.op = "dragMove" => Cardinality(gesture.ids) = 1)
       => els' = FirstMove(ev')]_vars

\* the second pointer-move of such a session, the geometry no longer the
\* one of the pointer-down
C39_Witness ==
  /\ ev.op \in MoveOps
  /\ budget.moves = 2
  /\ \A id \in gesture.ids : ~els[id].autoHeight
  /\ ev.op = "dragMove" => Cardinality(gesture.ids) = 1
  /\ els # StartEls

(***************************************************************************)
(* markdown-it-draggable-image.ts: the image rule of a build in which      *)
(* draggable images are enabled. A string is the sequence of its           *)
(* characters.                                                             *)
(***************************************************************************)
\* the characters \w matches, of those the sources below are written with
WordChars == {"a", "g", "i", "m", "2", "_"}

\* src.split(/[?#]/)[0]
RECURSIVE cleanSrc(_)
cleanSrc(src) ==
  IF src = << >> \/ Head(src) \in {"?", "#"} THEN << >>
  ELSE << Head(src) >> \o cleanSrc(Tail(src))

\* cleanSrc.split('/').pop() || ''
RECURSIVE basename(_)
basename(str) ==
  IF \E i \in DOMAIN str : str[i] = "/"
    THEN basename(Tail(str)) ELSE str

\* basename.replace(/\.[^.]+$/, '')
removeExtension(str) ==
  LET dots == {i \in DOMAIN str : str[i] = "."}
      last == CHOOSE i \in dots : \A j \in dots : j <= i
  IN  IF dots = {} \/ last = Len(str) THEN str
      ELSE SubSeq(str, 1, last - 1)

\* name.replace(/[^\w-]/g, '-')
replaceOthers(str) ==
  [i \in DOMAIN str |->
     IF str[i] \in WordChars \/ str[i] = "-" THEN str[i] ELSE "-"]

\* .replace(/-+/g, '-')
RECURSIVE collapseDashes(_)
collapseDashes(str) ==
  IF Len(str) < 2 THEN str
  ELSE IF str[1] = "-" /\ str[2] = "-" THEN collapseDashes(Tail(str))
  ELSE << Head(str) >> \o collapseDashes(Tail(str))

\* .replace(/^-|-$/g, '')
trimDashes(str) ==
  LET front == IF str # << >> /\ Head(str) = "-" THEN Tail(str) ELSE str
  IN  IF front # << >> /\ front[Len(front)] = "-"
        THEN SubSeq(front, 1, Len(front) - 1) ELSE front

extractImageId(src) ==
  LET sanitized ==
        trimDashes(collapseDashes(replaceOthers(
          removeExtension(basename(cleanSrc(src))))))
  IN  IF sanitized = << >> THEN <<"i", "m", "g">> ELSE sanitized

\* `${counter}`
RECURSIVE NumStr(_)
NumStr(n) ==
  LET digit == <<"0", "1", "2", "3", "4", "5", "6", "7", "8", "9">>
  IN  IF n < 10 THEN << digit[n + 1] >>
      ELSE NumStr(n \div 10) \o << digit[(n % 10) + 1] >>

\* an id that is the base id whatever the slide holds
uniqueIdNoCounter(baseId, slideIds) == baseId

\* the loop while (slideIds.has(imgId)) imgId = `${baseId}-${counter++}`
RECURSIVE uniqueIdFrom(_, _, _, _)
uniqueIdFrom(imgId, baseId, counter, slideIds) ==
  IF imgId \in slideIds
    THEN uniqueIdFrom(baseId \o <<"-">> \o NumStr(counter), baseId,
                      counter + 1, slideIds)
    ELSE imgId

uniqueId(baseId, slideIds) == uniqueIdFrom(baseId, baseId, 2, slideIds)

\* env.slideNo, or that env holds none
NoSlideNo == -1

\* bound of the images rendered with one env
MaxImages == 3

\* md.renderer.rules.image on the token of an image with the given src,
\* with or without an attribute whose name includes v-drag
renderImage(slideNoOfEnv, src, hasVDrag) ==
  /\ Len(env.rendered) < MaxImages
  /\ LET slideNo == IF slideNoOfEnv = NoSlideNo THEN 1 ELSE slideNoOfEnv
         ids == env._draggableImageIds
         slideIds == IF slideNo \in DOMAIN ids THEN ids[slideNo] ELSE {}
         baseId == <<"i", "m", "g", "-">> \o extractImageId(src)
         imgId == uniqueId(baseId, slideIds)
     IN  env' =
           IF hasVDrag
             THEN [env EXCEPT !.rendered =
                     Append(@, [slideNo |-> slideNo, src |-> src,
                                default |-> TRUE, vDrag |-> << >>])]
             ELSE [_draggableImageIds |->
                     [n \in DOMAIN ids \cup {slideNo} |->
                        IF n = slideNo THEN slideIds \cup {imgId}
                        ELSE ids[n]],
                   rendered |->
                     Append(env.rendered,
                            [slideNo |-> slideNo, src |-> src,
                             default |-> FALSE, vDrag |-> imgId])]
  /\ ev' = [op |-> "renderImage", src |-> src, hasVDrag |-> hasVDrag]
  /\ UNCHANGED <<els, history, redoStack, posStr, selection, activeSnapLines,
                 pointerDrag, currentDrag, rotation, groupDrag,
                 groupRotation, budget, script, gesture, currentCropDrag,
                 updater>>

(***************************************************************************)
(* Image specification: up to three images are rendered with one env, on   *)
(* one slide or on two; the sources repeat, differ in directory, query and *)
(* extension only, end in -2, or leave no name                             *)
(***************************************************************************)
ImageSources ==
  { <<"/", "a", ".", "g">>,
    <<"/", "i", "/", "a", ".", "g", "?", "2">>,
    <<"a", "-", "2", ".", "g">>,
    <<"a", "-", "2", "-", "2">>,
    <<"a", " ", ".", "2", ".", "g">>,
    <<"/", " ", "-", ".", "g", "#", "a">>,
    <<"i", "m", "g">>,
    <<"_", "a", ".">> }

InitImages ==
  /\ els = [id \in {} |-> 0]
  /\ history = [id \in {} |-> << >>]
  /\ redoStack = [id \in {} |-> << >>]
  /\ posStr = [id \in {} |-> << >>]
  /\ selection = << >>
  /\ NoGestureInit

NextImages ==
  \E slideNo \in {NoSlideNo, 1, 2}, src \in ImageSources, hasVDrag \in BOOLEAN :
    renderImage(slideNo, src, hasVDrag)

SpecImages == InitImages /\ [][NextImages]_vars

\* the images of the slide the rule gave a drag id
Generated(slideNo) ==
  {i \in DOMAIN env.rendered :
     ~env.rendered[i].default /\ env.rendered[i].slideNo = slideNo}

\* img-<sanitised basename>, or that followed by -<counter>
IdForm(r) ==
  LET name == extractImageId(r.src)
      base == <<"i", "m", "g", "-">> \o name
  IN  /\ name # << >>
      /\ \A i \in DOMAIN name : name[i] \in WordChars \cup {"-"}
      /\ \/ r.vDrag = base
         \/ \E k \in 2 .. (MaxImages + 1) :
              r.vDrag = base \o <<"-">> \o NumStr(k)

\* C40: the drag ids generated for the images of one slide are pairwise
\* distinct, each is img-<sanitised basename> with or without -<counter>,
\* and an image that carries a v-drag attribute is rendered by the default
\* rule and consumes no id
C40_ImageIdsDistinct ==
  /\ [](\A n \in {1, 2} :
          /\ \A i, j \in Generated(n) :
               i # j => env.rendered[i].vDrag # env.rendered[j].vDrag
          /\ \A i \in Generated(n) : IdForm(env.rendered[i]))
  /\ [][ev'.op = "renderImage" /\ ev'.hasVDrag
          => /\ env'._draggableImageIds = env._draggableImageIds
             /\ env'.rendered[Len(env'.rendered)].default]_vars

\* a.g, then a.g with a v-drag attribute, then i/a.g?2 on one slide: img-a,
\* the default rendering, and img-a-2
C40_Witness ==
  /\ Len(env.rendered) = 3
  /\ env.rendered[1].vDrag = <<"i", "m", "g", "-", "a">>
  /\ env.rendered[2].default
  /\ env.rendered[2].src = <<"/", "a", ".", "g">>
  /\ env.rendered[3].src = <<"/", "i", "/", "a", ".", "g", "?", "2">>
  /\ env.rendered[3].vDrag = <<"i", "m", "g", "-", "a", "-", "2">>
  /\ \A i \in {1, 2, 3} : env.rendered[i].slideNo = 1

====
